---- MODULE Spec2Model ----
(***************************************************************************)
(* Client-side traffic control of the Riot API client: the dual-window     *)
(* rate limiter with its priority admission queue (services/rate-limiter)  *)
(* and the retry policy built on it (withRetry, riotFetch).                *)
(*                                                                         *)
(* Execution model.  The code runs on one JavaScript event loop, so every  *)
(* action below is one synchronous run of a handler up to its next await.  *)
(* Time is kept relative to the current instant: Date.now() reads Now, and *)
(* the passage of d milliseconds (Tick) moves every stored timestamp d ms  *)
(* into the past.  A timestamp that is older than the window it belongs to *)
(* is kept at exactly one window length, which the code cannot tell from   *)
(* any older value because it only tests now - stamp >= window.            *)
(***************************************************************************)
EXTENDS Integers, Sequences, FiniteSets, TLC

\* ---- program constants -------------------------------------------------
REQUESTS_PER_SECOND == 20
REQUESTS_PER_2_MINUTES == 100
RETRY_DELAY_MS == 1000
MAX_RETRIES == 3
SECOND_WINDOW_MS == 1000
TWO_MINUTES_WINDOW_MS == 120000

\* ---- bounds of the model -----------------------------------------------
NumCallers == 3
MaxPriority == 1
TickMs == 500
FineHorizonMs == 1000
MaxEntries == 2
CacheTickMs == 15000
TicksPerTtl == 2
MaxReads == 2
MaxCalls == 2

Callers == 1..NumCallers
ReadIds == 1..MaxReads
Priorities == 0..MaxPriority

\* Date.now(): the current instant is the origin of the time axis.
Now == 0

VARIABLES
    state,      \* the module-level RateLimitState object
    sleepers,   \* wake-up times of the processQueue runs suspended in sleep()
    busySpin,   \* a processQueue run is looping without reaching an await
    pc,         \* per caller: "idle", "queued" (its promise is pending),
                \* "infn" (fn is in flight) or "backoff" (withRetry sleeps)
    call,       \* per caller: the locals of its withRetry execution
    budget,     \* the calls a bounded burst has still to make
    admitted,   \* history: the admissions made by the last step, in order
    notBefore,  \* history: per queued caller, when its full window ends
    arrival,    \* history: the queued callers in the order they were pushed
    restarted,  \* history: the windows the last step restarted, with their age
    since,      \* history: admissions counted since each window's start
    recent,     \* history: admissions of the last SECOND_WINDOW_MS, by time
    snapshot,   \* history: what getRateLimitStatus returned in the last step
    caches,     \* cache.ts: per store, the LRUCache's entries, least recently
                \* used first
    config,     \* cache.ts: the CacheConfig object
    written,    \* history: what cacheSet stored and nothing removed since
    last,       \* history: the cache call of the last step and its result
    reads,      \* riot-client.ts: the executions of the cached read functions
    batch,      \* riot-client.ts: the execution of getMatches
    profile,    \* riot-client.ts: the execution of getPlayerProfile
    currentVersion, \* data-dragon.ts: the module-level version, Null at first
    itemsById,  \* data-dragon.ts: the item index, as a set of id/item pairs
    championsById,   \* data-dragon.ts: the champion index by id
    championsByName, \* data-dragon.ts: the champion index by lower-case name
    spellsById, \* data-dragon.ts: the summoner spell index
    runesById,  \* data-dragon.ts: the index of rune trees and runes
    indexed,    \* data-dragon.ts: the data the other indexes were built from
    loaders,    \* data-dragon.ts: the executions of the four load functions
    versionRequests, \* history: the requests made for /api/versions.json
    resolved,   \* history: the resolver call of the last step and its result
    riotApiKey, \* riot-client.ts: the module-level key
    refreshCallback, \* riot-client.ts: the hook setApiKeyRefreshCallback registered
    refreshed,  \* history: what the hook returned when it was last invoked
    cancelled   \* history: the callers that gave up the call they are waiting for

authVars == <<riotApiKey, refreshCallback, refreshed>>
hostVars == <<authVars, cancelled>>
limiterVars == <<state, sleepers, busySpin, pc, call, budget,
                 admitted, notBefore, arrival, restarted, since, recent, snapshot,
                 hostVars>>
cacheVars == <<caches, config, written, last>>
clientVars == <<reads, batch, profile>>
indexVars == <<itemsById, championsById, championsByName, spellsById, runesById>>
dragonVars == <<currentVersion, indexVars, indexed, loaders, versionRequests, resolved>>
restVars == <<clientVars, dragonVars>>
limiterBut == <<state, sleepers, busySpin, pc, call,
                admitted, notBefore, arrival, restarted, since, recent, snapshot,
                hostVars>>
otherVars == <<cacheVars, restVars, hostVars>>

vars == <<limiterVars, otherVars>>

Max(a, b) == IF a >= b THEN a ELSE b

Range(s) == {s[i] : i \in 1..Len(s)}

\* ---- rate-limiter.ts, pure parts ----------------------------------------

\* Variant: the windows are taken to last one millisecond.
resetCountersEarly(st) ==
    LET secondPassed == Now - st.lastSecondReset >= 1
        minutesPassed == Now - st.last2MinutesReset >= 1
    IN  [st EXCEPT
            !.requestsThisSecond = IF secondPassed THEN 0 ELSE @,
            !.lastSecondReset = IF secondPassed THEN Now ELSE @,
            !.requestsThis2Minutes = IF minutesPassed THEN 0 ELSE @,
            !.last2MinutesReset = IF minutesPassed THEN Now ELSE @]

resetCountersIfNeeded(st) ==
    LET secondPassed == Now - st.lastSecondReset >= SECOND_WINDOW_MS
        minutesPassed == Now - st.last2MinutesReset >= TWO_MINUTES_WINDOW_MS
    IN  [st EXCEPT
            !.requestsThisSecond = IF secondPassed THEN 0 ELSE @,
            !.lastSecondReset = IF secondPassed THEN Now ELSE @,
            !.requestsThis2Minutes = IF minutesPassed THEN 0 ELSE @,
            !.last2MinutesReset = IF minutesPassed THEN Now ELSE @]

\* Variant: the limits are compared with <=.
canMakeRequestOffByOne(st) ==
    /\ st.requestsThisSecond <= REQUESTS_PER_SECOND
    /\ st.requestsThis2Minutes <= REQUESTS_PER_2_MINUTES

\* Variant: one unit of each window is never handed out.
canMakeRequestStrict(st) ==
    /\ st.requestsThisSecond + 1 < REQUESTS_PER_SECOND
    /\ st.requestsThis2Minutes + 1 < REQUESTS_PER_2_MINUTES

\* The boolean canMakeRequest returns; st is the state after the reset that
\* canMakeRequest performs first.
canMakeRequest(st) ==
    /\ st.requestsThisSecond < REQUESTS_PER_SECOND
    /\ st.requestsThis2Minutes < REQUESTS_PER_2_MINUTES

\* Variant: only the short window counts the request.
recordRequestShortOnly(st) ==
    [st EXCEPT !.requestsThisSecond = @ + 1]

recordRequest(st) ==
    [st EXCEPT !.requestsThisSecond = @ + 1, !.requestsThis2Minutes = @ + 1]

\* Variant: the wait is computed for the short window alone.
getWaitTimeShortOnly(st) ==
    IF st.requestsThisSecond >= REQUESTS_PER_SECOND
    THEN SECOND_WINDOW_MS - (Now - st.lastSecondReset)
    ELSE 0

\* The number getWaitTime returns; st is the state after its reset.
getWaitTime(st) ==
    IF st.requestsThisSecond >= REQUESTS_PER_SECOND
    THEN SECOND_WINDOW_MS - (Now - st.lastSecondReset)
    ELSE IF st.requestsThis2Minutes >= REQUESTS_PER_2_MINUTES
         THEN TWO_MINUTES_WINDOW_MS - (Now - st.last2MinutesReset)
         ELSE 0

\* Variant: an insertion that puts the element before its equals.
RECURSIVE InsertUnstable(_, _)
InsertUnstable(e, s) ==
    IF s = <<>> THEN <<e>>
    ELSE IF Head(s).priority > e.priority
         THEN <<Head(s)>> \o InsertUnstable(e, Tail(s))
         ELSE <<e>> \o s

\* Array.prototype.sort with (a, b) => b.priority - a.priority: a stable
\* sort, highest priority first.
RECURSIVE InsertByPriority(_, _)
InsertByPriority(e, s) ==
    IF s = <<>> THEN <<e>>
    ELSE IF Head(s).priority >= e.priority
         THEN <<Head(s)>> \o InsertByPriority(e, Tail(s))
         ELSE <<e>> \o s

\* Variant: the queue is served in the order of the pushes.
sortOmitted(q) == q

RECURSIVE sortByPriority(_)
sortByPriority(q) ==
    IF q = <<>> THEN <<>>
    ELSE InsertByPriority(q[Len(q)], sortByPriority(SubSeq(q, 1, Len(q) - 1)))

\* The outcome of a synchronous run of processQueue: the state it leaves,
\* the sleep it suspended in (none when it returned), the entries it
\* resolved, and whether it is stuck in its loop.
Outcome(st, sleep, adm, spin) ==
    [st |-> st, sleep |-> sleep, admitted |-> adm, spin |-> spin]

\* Variant: the request that is admitted stays in the queue.
admitNextPeek(st) ==
    LET sorted == sortByPriority(st.queue)
        next == Head(sorted)
        s1 == recordRequest([st EXCEPT !.queue = sorted])
    IN  [st |-> s1,
         entry |-> [caller |-> next.caller, priority |-> next.priority,
                    path |-> "queue", rest |-> Tail(sorted),
                    preSecond |-> st.requestsThisSecond,
                    pre2Minutes |-> st.requestsThis2Minutes]]

\* Lines 101-110: sort, shift, recordRequest, resolve.  st is the state
\* after canMakeRequest's reset, and canMakeRequest returned true.
admitNext(st) ==
    LET sorted == sortByPriority(st.queue)
        next == Head(sorted)
        s1 == recordRequest([st EXCEPT !.queue = Tail(sorted)])
    IN  [st |-> s1,
         entry |-> [caller |-> next.caller, priority |-> next.priority,
                    path |-> "queue", rest |-> Tail(sorted),
                    preSecond |-> st.requestsThisSecond,
                    pre2Minutes |-> st.requestsThis2Minutes]]

\* The while loop of processQueue from the top of an iteration.
RECURSIVE serviceLoop(_, _)
serviceLoop(st, adm) ==
    IF Len(st.queue) = 0
    THEN Outcome([st EXCEPT !.processing = FALSE], <<>>, adm, FALSE)
    ELSE LET s1 == resetCountersIfNeeded(st)
             waitTime == getWaitTime(s1)
         IN  IF waitTime > 0
             THEN Outcome(s1, <<Now + waitTime>>, adm, FALSE)
             ELSE IF canMakeRequest(s1)
                  THEN LET a == admitNext(s1)
                       IN  serviceLoop(a.st, Append(adm, a.entry))
                  ELSE Outcome(s1, <<>>, adm, TRUE)

\* The loop resumed after its sleep: the admission test of this iteration,
\* then the following iterations.
afterSleep(st) ==
    LET s1 == resetCountersIfNeeded(st)
    IN  IF canMakeRequest(s1)
        THEN LET a == admitNext(s1)
             IN  serviceLoop(a.st, <<a.entry>>)
        ELSE serviceLoop(s1, <<>>)

\* Variant: processQueue without its test of state.processing.
processQueueUnguarded(st) ==
    IF Len(st.queue) = 0
    THEN Outcome(st, <<>>, <<>>, FALSE)
    ELSE serviceLoop([st EXCEPT !.processing = TRUE], <<>>)

processQueue(st) ==
    IF st.processing \/ Len(st.queue) = 0
    THEN Outcome(st, <<>>, <<>>, FALSE)
    ELSE serviceLoop([st EXCEPT !.processing = TRUE], <<>>)


\* waitForRateLimit(priority) called by c: the request is counted at once,
\* or pushed and processQueue() is called.
waitForRateLimit(st, c, priority) ==
    LET s1 == resetCountersIfNeeded(st)
    IN  IF canMakeRequest(s1)
        THEN Outcome(recordRequest(s1), <<>>,
                     <<[caller |-> c, priority |-> priority,
                        path |-> "immediate", rest |-> s1.queue,
                        preSecond |-> s1.requestsThisSecond,
                        pre2Minutes |-> s1.requestsThis2Minutes]>>, FALSE)
        ELSE processQueue([s1 EXCEPT !.queue =
                               Append(@, [caller |-> c, priority |-> priority])])

\* getRateLimitStatus(): the state it leaves and the object it returns.  It
\* calls resetCountersIfNeeded, and canMakeRequest calls it once more.
getRateLimitStatus(st) ==
    LET s1 == resetCountersIfNeeded(st)
        s2 == resetCountersIfNeeded(s1)
    IN  [st |-> s2,
         value |-> [requestsThisSecond |-> s1.requestsThisSecond,
                    requestsThis2Minutes |-> s1.requestsThis2Minutes,
                    queueLength |-> Len(s1.queue),
                    canMakeRequest |-> canMakeRequest(s2)]]

\* ---- withRetry and the operation riotFetch passes to it -----------------

\* What the fetch of one attempt can end in: an HTTP response with a
\* status, or no response at all (fetch itself throws).
Statuses == {200, 401, 403, 404, 429, 500}
Outcomes == [kind : {"http"}, status : Statuses] \cup {[kind |-> "network", status |-> 0]}

\* response.ok
ResponseOk(o) == o.kind = "http" /\ o.status >= 200 /\ o.status <= 299

\* Strings are sequences of characters.
RECURSIVE Digits(_)
Digits(n) ==
    LET d == <<"0", "1", "2", "3", "4", "5", "6", "7", "8", "9">>[(n % 10) + 1]
    IN  IF n < 10 THEN <<d>> ELSE Append(Digits(n \div 10), d)

\* String.prototype.includes
Includes(s, t) ==
    \E i \in 1..(Len(s) - Len(t) + 1) : SubSeq(s, i, i + Len(t) - 1) = t

\* The message of the Error an attempt throws (riotFetch lines 60-78; the
\* TypeError of a failed fetch).
errorMessage(o) ==
    IF o.kind = "network" THEN <<"f", "e", "t", "c", "h", " ", "f", "a", "i", "l", "e", "d">>
    ELSE IF o.status = 401 THEN
        <<"I", "n", "v", "a", "l", "i", "d", " ", "R", "i", "o", "t", " ",
          "A", "P", "I", " ", "k", "e", "y">>
    ELSE IF o.status = 403 THEN
        <<"R", "i", "o", "t", " ", "A", "P", "I", " ", "k", "e", "y", " ",
          "d", "o", "e", "s", " ", "n", "o", "t", " ", "h", "a", "v", "e",
          " ", "a", "c", "c", "e", "s", "s", " ", "t", "o", " ", "t", "h",
          "i", "s", " ", "e", "n", "d", "p", "o", "i", "n", "t">>
    ELSE IF o.status = 404 THEN
        <<"R", "e", "s", "o", "u", "r", "c", "e", " ", "n", "o", "t", " ",
          "f", "o", "u", "n", "d">>
    ELSE IF o.status = 429 THEN
        <<"R", "a", "t", "e", " ", "l", "i", "m", "i", "t", " ", "e", "x",
          "c", "e", "e", "d", "e", "d", " ", "(", "4", "2", "9", ")">>
    ELSE <<"R", "i", "o", "t", " ", "A", "P", "I", " ", "e", "r", "r", "o",
           "r", ":", " ">>
         \o Digits(o.status)

\* Variant: the test matches on the first letter only.
isRateLimitedLoose(message) ==
    \/ Includes(message, <<"4">>)
    \/ Includes(message, <<"R">>)

\* Variant: an invalid key is retried like a throttled request.
isRateLimitedOrInvalid(message) ==
    \/ Includes(message, <<"4", "2", "9">>)
    \/ Includes(message, <<"R", "a", "t", "e", " ", "l", "i", "m", "i", "t">>)
    \/ Includes(message, <<"I", "n", "v", "a", "l", "i", "d">>)

\* The test of withRetry's catch block: retry on this error?
isRateLimited(message) ==
    \/ Includes(message, <<"4", "2", "9">>)
    \/ Includes(message, <<"R", "a", "t", "e", " ", "l", "i", "m", "i", "t">>)

RECURSIVE Pow2(_)
Pow2(n) == IF n = 0 THEN 1 ELSE 2 * Pow2(n - 1)

\* Variant: the delay grows by RETRY_DELAY_MS per attempt.
retryDelayLinear(attempt) == RETRY_DELAY_MS * (attempt + 1)

retryDelay(attempt) == RETRY_DELAY_MS * Pow2(attempt)

\* Variant: the loop stops one attempt early.
hasAttemptOffByOne(attempt, maxRetries) == attempt < maxRetries

\* The for loop's test.
hasAttempt(attempt, maxRetries) == attempt <= maxRetries

\* Variant: only the first attempt acquires.
acquiresOnlyFirst(attempt) == attempt = 0

\* Line 157 stands inside the loop: every attempt acquires first.
acquiresBefore(attempt) == TRUE

NoCall == [maxRetries |-> 0, priority |-> 0, attempt |-> 0, lastError |-> 0,
           wake |-> Now, result |-> "none",
           fnCalls |-> 0, units |-> 0, throttled |-> 0, backoffs |-> 0,
           waits |-> <<>>]

\* fn() is called: the attempt is in flight.
startAttempt(cl) == [cl EXCEPT !.fnCalls = @ + 1]

\* ---- cache.ts --------------------------------------------------------------

CACHE_TTL ==
    [DATA_DRAGON |-> 24 * 60 * 60 * 1000, PLAYER_PROFILE |-> 5 * 60 * 1000,
     RANKED_INFO |-> 5 * 60 * 1000, MATCH_DETAILS |-> 7 * 24 * 60 * 60 * 1000,
     MATCH_IDS |-> 2 * 60 * 1000, LIVE_GAME |-> 30 * 1000,
     CHAMPION_MASTERY |-> 10 * 60 * 1000]

Stores == {"dataDragon", "playerProfile", "rankedInfo", "matchDetails",
           "matchIds", "liveGame", "championMastery"}

\* The time to live of each store's entries.
NamespaceTtl ==
    [dataDragon |-> CACHE_TTL.DATA_DRAGON, playerProfile |-> CACHE_TTL.PLAYER_PROFILE,
     rankedInfo |-> CACHE_TTL.RANKED_INFO, matchDetails |-> CACHE_TTL.MATCH_DETAILS,
     matchIds |-> CACHE_TTL.MATCH_IDS, liveGame |-> CACHE_TTL.LIVE_GAME,
     championMastery |-> CACHE_TTL.CHAMPION_MASTERY]

\* Variant: the stores are built without the ttl option.
storeTtlUnset(store) == 0

\* The ttl option of a store's LRUCache.
storeTtl(store) == NamespaceTtl[store]

\* The max option of a store's LRUCache: 20 to 100 entries in the source,
\* MaxEntries here.
storeMax(store) == MaxEntries

\* JavaScript's undefined and null.
Undefined == "undefined"
Null == "null"

\* LRUCache (lru-cache v10, options max and ttl only).  An entry is stale
\* once it is older than its ttl; a ttl of 0 means no expiry.
isStale(e, ttl) == ttl # 0 /\ Now - e.start > ttl

IndexOf(c, key) ==
    IF \E i \in 1..Len(c) : c[i].key = key
    THEN CHOOSE i \in 1..Len(c) : c[i].key = key
    ELSE 0

RemoveAt(c, i) == SubSeq(c, 1, i - 1) \o SubSeq(c, i + 1, Len(c))

\* LRUCache.delete
lruDelete(c, key) ==
    IF IndexOf(c, key) = 0 THEN c ELSE RemoveAt(c, IndexOf(c, key))

\* LRUCache.peek: the value without a change of recency.
lruPeek(c, key, ttl) ==
    LET i == IndexOf(c, key)
    IN  IF i = 0 THEN [cache |-> c, value |-> Undefined]
        ELSE IF isStale(c[i], ttl) THEN [cache |-> c, value |-> Undefined]
        ELSE [cache |-> c, value |-> c[i].value]

\* LRUCache.get: a stale entry is deleted, a fresh one becomes the most
\* recently used.
lruGet(c, key, ttl) ==
    LET i == IndexOf(c, key)
    IN  IF i = 0 THEN [cache |-> c, value |-> Undefined]
        ELSE IF isStale(c[i], ttl)
             THEN [cache |-> RemoveAt(c, i), value |-> Undefined]
             ELSE [cache |-> Append(RemoveAt(c, i), c[i]), value |-> c[i].value]

\* Variant: a new key is added without evicting.
lruSetGrowing(c, key, value, max) ==
    LET i == IndexOf(c, key)
        e == [key |-> key, value |-> value, start |-> Now]
    IN  IF value = Undefined THEN lruDelete(c, key)
        ELSE IF i # 0 THEN Append(RemoveAt(c, i), e)
        ELSE Append(c, e)

\* LRUCache.set: undefined deletes; a key that is present is replaced and
\* its age restarted; a new key evicts the least recently used entry of a
\* full cache.
lruSet(c, key, value, max) ==
    LET i == IndexOf(c, key)
        e == [key |-> key, value |-> value, start |-> Now]
    IN  IF value = Undefined THEN lruDelete(c, key)
        ELSE IF i # 0 THEN Append(RemoveAt(c, i), e)
        ELSE IF Len(c) >= max THEN Append(Tail(c), e)
        ELSE Append(c, e)

\* initCache(enabled)
initCache(cfg, enabled) == [cfg EXCEPT !.enabled = enabled]

\* Variant: the store is read with peek.
cacheGetPeek(cfg, cs, store, key) ==
    IF ~cfg.enabled THEN [caches |-> cs, value |-> Undefined]
    ELSE [caches |-> cs, value |-> lruPeek(cs[store], key, storeTtl(store)).value]

\* cacheGet(store, key): the caches after the call and the value returned.
cacheGet(cfg, cs, store, key) ==
    IF ~cfg.enabled THEN [caches |-> cs, value |-> Undefined]
    ELSE LET got == lruGet(cs[store], key, storeTtl(store))
         IN  [caches |-> [cs EXCEPT ![store] = got.cache], value |-> got.value]

\* Variant: the enabled flag is not looked at.
cacheSetAlways(cfg, cs, store, key, value) ==
    [cs EXCEPT ![store] = lruSet(@, key, value, storeMax(store))]

\* cacheSet(store, key, value): the caches after the call.
cacheSet(cfg, cs, store, key, value) ==
    IF ~cfg.enabled THEN cs
    ELSE [cs EXCEPT ![store] = lruSet(@, key, value, storeMax(store))]

\* cacheDelete(store, key)
cacheDelete(cs, store, key) == [cs EXCEPT ![store] = lruDelete(@, key)]

\* Variant: the store argument is not looked at.
cacheClearAll(cs, which) == [s \in Stores |-> <<>>]

\* cacheClear(store) and cacheClear()
cacheClear(cs, which) == [s \in Stores |-> IF s \in which THEN <<>> ELSE cs[s]]

\* ---- history bookkeeping -------------------------------------------------

\* The end of the windows that are exhausted in st (windowStartedAt +
\* windowDuration, the later one when both are), Now when neither is.
WindowEnd(st) ==
    Max(IF st.requestsThisSecond >= REQUESTS_PER_SECOND
        THEN st.lastSecondReset + SECOND_WINDOW_MS ELSE Now,
        IF st.requestsThis2Minutes >= REQUESTS_PER_2_MINUTES
        THEN st.last2MinutesReset + TWO_MINUTES_WINDOW_MS ELSE Now)

\* The callers pushed before c that are still waiting.
Before(arr, c) ==
    {arr[i] : i \in {j \in 1..Len(arr) : \E k \in 1..Len(arr) : k > j /\ arr[k] = c}}

Without(arr, c) == SelectSeq(arr, LAMBDA x : x # c)

\* The admissions of a step, each with what was known of its caller.
RECURSIVE Decorate(_, _)
Decorate(adm, arr) ==
    IF adm = <<>> THEN <<>>
    ELSE LET a == Head(adm)
             waited == a.path = "queue"
         IN  <<[caller |-> a.caller, priority |-> a.priority, path |-> a.path,
                rest |-> a.rest, preSecond |-> a.preSecond,
                pre2Minutes |-> a.pre2Minutes,
                before |-> IF waited THEN Before(arr, a.caller) ELSE {},
                notBefore |-> IF waited THEN notBefore[a.caller] ELSE Now]>>
             \o Decorate(Tail(adm), Without(arr, a.caller))

RECURSIVE WithoutAll(_, _)
WithoutAll(arr, adm) ==
    IF adm = <<>> THEN arr ELSE WithoutAll(Without(arr, Head(adm).caller), Tail(adm))

Resolved(adm) == {adm[i].caller : i \in 1..Len(adm)}

RECURSIVE Total(_)
Total(S) ==
    IF S = {} THEN 0
    ELSE LET e == CHOOSE x \in S : TRUE IN e.n + Total(S \ {e})

AddRecent(r, k) ==
    IF k = 0 THEN r
    ELSE LET old == {e \in r : e.at = Now}
         IN  (r \ old) \cup {[at |-> Now, n |-> Total(old) + k]}

\* The histories of a step in which the limiter ran and made out.
ObserveWindows(out, arr, pushed) ==
    LET secondRestart == out.st.lastSecondReset = Now /\ state.lastSecondReset # Now
        minutesRestart == out.st.last2MinutesReset = Now /\ state.last2MinutesReset # Now
        n == Len(out.admitted)
    IN  /\ admitted' = Decorate(out.admitted, arr)
        /\ arrival' = WithoutAll(arr, out.admitted)
        /\ notBefore' = [d \in Callers |->
              IF d \in Resolved(out.admitted) THEN Now
              ELSE IF d \in pushed THEN WindowEnd(resetCountersIfNeeded(state))
              ELSE notBefore[d]]
        /\ restarted' =
              {[window |-> "second", age |-> Now - state.lastSecondReset] :
                   x \in {1} \cap (IF secondRestart THEN {1} ELSE {})}
              \cup {[window |-> "minutes", age |-> Now - state.last2MinutesReset] :
                   x \in {1} \cap (IF minutesRestart THEN {1} ELSE {})}
        /\ since' = [second |-> (IF secondRestart THEN 0 ELSE since.second) + n,
                     minutes |-> (IF minutesRestart THEN 0 ELSE since.minutes) + n]
        /\ recent' = AddRecent(recent, n)

NoSnapshot == [requestsThisSecond |-> -1, requestsThis2Minutes |-> -1,
               queueLength |-> -1, canMakeRequest |-> FALSE]

Observe(out, arr, pushed) ==
    /\ ObserveWindows(out, arr, pushed)
    /\ snapshot' = NoSnapshot

\* A step that does not enter the limiter.
Quiet ==
    /\ admitted' = <<>>
    /\ restarted' = {}
    /\ snapshot' = NoSnapshot
    /\ UNCHANGED <<state, sleepers, busySpin, notBefore, arrival, since, recent>>

\* ---- actions -------------------------------------------------------------

\* cache.ts as loaded: empty stores, the cache enabled.
NoRecord == [key |-> <<>>, value |-> Undefined, at |-> Now]
NoCacheCall == [op |-> "none", store |-> "", key |-> <<>>, value |-> Undefined,
                had |-> NoRecord, lru |-> NoRecord]

CacheInit ==
    /\ caches = [s \in Stores |-> <<>>]
    /\ config = [enabled |-> TRUE]
    /\ written = [s \in Stores |-> <<>>]
    /\ last = NoCacheCall

\* riot-client.ts as loaded: nothing is executing.
NoRead == [fn |-> "", store |-> "", key |-> <<>>, url |-> <<>>, owner |-> "none",
           pc |-> "idle", attempt |-> 0, value |-> Undefined, error |-> <<>>,
           requests |-> 0, status |-> 0, hit |-> FALSE, fresh |-> FALSE,
           known |-> FALSE, had |-> Undefined, stored |-> FALSE]

NoBatch == [pc |-> "idle", matchIds |-> <<>>, i |-> 0, matches |-> <<>>,
            fetched |-> <<>>]
NoProfile == [pc |-> "idle", account |-> Undefined, region |-> "", error |-> <<>>]

ClientInit ==
    /\ reads = [r \in ReadIds |-> NoRead]
    /\ batch = NoBatch
    /\ profile = NoProfile

\* riot-client.ts after initRiotClient: a key, no hook.
AuthInit ==
    /\ riotApiKey = "key1"
    /\ refreshCallback = Null
    /\ refreshed = Undefined

\* data-dragon.ts as loaded: no version, empty indexes.
Kinds == <<"champions", "items", "summoner", "runes">>
NoLoader == [pc |-> "idle", version |-> Undefined]
NoResolved == [fn |-> "", id |-> -1, name |-> <<>>, value |-> Undefined]

DragonInit ==
    /\ currentVersion = Null
    /\ itemsById = {}
    /\ championsById = {}
    /\ championsByName = {}
    /\ spellsById = {}
    /\ runesById = {}
    /\ indexed = [k \in Range(Kinds) \ {"items"} |-> Undefined]
    /\ loaders = [l \in DOMAIN Kinds |-> NoLoader]
    /\ versionRequests = 0
    /\ resolved = NoResolved

\* The limiter with nobody waiting, its windows started at Now with
\* usedSecond and used2Minutes admissions, and calls calls to come.
StartUnkeyed(usedSecond, used2Minutes, calls) ==
    /\ state = [requestsThisSecond |-> usedSecond,
                requestsThis2Minutes |-> used2Minutes,
                lastSecondReset |-> Now, last2MinutesReset |-> Now,
                queue |-> <<>>, processing |-> FALSE]
    /\ sleepers = <<>>
    /\ busySpin = FALSE
    /\ pc = [c \in Callers |-> "idle"]
    /\ call = [c \in Callers |-> NoCall]
    /\ budget = calls
    /\ admitted = <<>>
    /\ notBefore = [c \in Callers |-> Now]
    /\ arrival = <<>>
    /\ restarted = {}
    /\ since = [second |-> usedSecond, minutes |-> used2Minutes]
    /\ recent = AddRecent({}, used2Minutes)
    /\ snapshot = NoSnapshot
    /\ CacheInit
    /\ ClientInit
    /\ DragonInit
    /\ cancelled = {}

\* The same after main has called initRiotClient with a key.
Start(usedSecond, used2Minutes, calls) ==
    /\ StartUnkeyed(usedSecond, used2Minutes, calls)
    /\ AuthInit

Init == Start(0, 0, REQUESTS_PER_SECOND + NumCallers)

\* A new call is made by the caller with the lowest free number.
Free(c) == pc[c] = "idle" /\ \A d \in Callers : d < c => pc[d] # "idle"

\* The callers whose promise the step resolved go on: a withRetry execution
\* calls fn, a bare waitForRateLimit is over.
Continue(out, callBase, pcBase) ==
    LET done == Resolved(out.admitted) \cap Callers
        retrying(d) == callBase[d].result = "pending"
    IN  /\ call' = [d \in Callers |->
              IF d \in done /\ retrying(d)
              THEN startAttempt([callBase[d] EXCEPT !.units = @ + 1])
              ELSE callBase[d]]
        /\ pc' = [d \in Callers |->
              IF d \in done THEN (IF retrying(d) THEN "infn" ELSE "idle")
              ELSE pcBase[d]]

\* c calls waitForRateLimit(priority); cl are its withRetry locals.
Enter(c, priority, cl) ==
    LET out == waitForRateLimit(state, c, priority)
        isPushed == c \notin Resolved(out.admitted)
    IN  /\ state' = out.st
        /\ sleepers' = sleepers \o out.sleep
        /\ busySpin' = out.spin
        /\ Observe(out, IF isPushed THEN Append(arrival, c) ELSE arrival,
                   IF isPushed THEN {c} ELSE {})
        /\ Continue(out, [call EXCEPT ![c] = cl], [pc EXCEPT ![c] = "queued"])

\* waitForRateLimit(priority), as withRateLimit calls it.
Acquire(c, priority) ==
    /\ ~busySpin
    /\ Free(c)
    /\ Enter(c, priority, call[c])
    /\ UNCHANGED budget
    /\ UNCHANGED otherVars

\* The same call as one of a bounded burst.
BurstAcquire(c, priority) ==
    /\ ~busySpin
    /\ Free(c)
    /\ budget > 0
    /\ Enter(c, priority, call[c])
    /\ budget' = budget - 1
    /\ UNCHANGED otherVars

\* Other clients call waitForRateLimit in one synchronous run for as long
\* as they are admitted at once.
RECURSIVE burst(_, _)
burst(st, adm) ==
    IF canMakeRequest(resetCountersIfNeeded(st))
    THEN LET out == waitForRateLimit(st, 0, 0)
         IN  burst(out.st, adm \o out.admitted)
    ELSE Outcome(st, <<>>, adm, FALSE)

Flood ==
    /\ ~busySpin
    /\ canMakeRequest(resetCountersIfNeeded(state))
    /\ LET out == burst(state, <<>>)
       IN  /\ state' = out.st
           /\ Observe(out, arrival, {})
    /\ UNCHANGED <<sleepers, busySpin, pc, call, budget>>
    /\ UNCHANGED otherVars

\* The timer of a sleeping processQueue run fires and the run resumes.
TimerFire(i) ==
    /\ ~busySpin
    /\ i \in 1..Len(sleepers)
    /\ sleepers[i] <= Now
    /\ LET out == afterSleep(state)
       IN  /\ state' = out.st
           /\ sleepers' = SubSeq(sleepers, 1, i - 1)
                          \o SubSeq(sleepers, i + 1, Len(sleepers)) \o out.sleep
           /\ busySpin' = out.spin
           /\ Observe(out, arrival, {})
           /\ Continue(out, call, pc)
    /\ UNCHANGED budget
    /\ UNCHANGED otherVars

\* withRetry's loop from its test, with the locals cl.
Loop(c, cl) ==
    IF hasAttempt(cl.attempt, cl.maxRetries)
    THEN IF acquiresBefore(cl.attempt)
         THEN /\ budget > 0
              /\ Enter(c, cl.priority, cl)
              /\ budget' = budget - 1
         ELSE /\ call' = [call EXCEPT ![c] = startAttempt(cl)]
              /\ pc' = [pc EXCEPT ![c] = "infn"]
              /\ Quiet
              /\ UNCHANGED budget
    ELSE /\ call' = [call EXCEPT ![c] = [cl EXCEPT !.result = "thrown"]]
         /\ pc' = [pc EXCEPT ![c] = "idle"]
         /\ Quiet
         /\ UNCHANGED budget

\* withRetry(fn, maxRetries, priority) is called.
WithRetry(c, maxRetries, priority) ==
    /\ ~busySpin
    /\ Free(c)
    /\ \A d \in Callers : call[d].result # "pending"
    /\ Loop(c, [NoCall EXCEPT !.maxRetries = maxRetries,
                              !.priority = priority, !.result = "pending"])
    /\ UNCHANGED otherVars

\* The attempt in flight ends in o: withRetry returns, sleeps before the
\* next iteration, or throws.
AttemptEnds(c, o) ==
    /\ ~busySpin
    /\ pc[c] = "infn"
    /\ LET cl == [call[c] EXCEPT !.throttled = @ + (IF o.status = 429 THEN 1 ELSE 0)]
       IN  IF ResponseOk(o)
           THEN /\ call' = [call EXCEPT ![c] = [cl EXCEPT !.result = "returned"]]
                /\ pc' = [pc EXCEPT ![c] = "idle"]
           ELSE IF isRateLimited(errorMessage(o))
                THEN /\ call' = [call EXCEPT ![c] = [cl EXCEPT
                            !.lastError = o.status,
                            !.wake = Now + retryDelay(cl.attempt),
                            !.backoffs = @ + 1,
                            !.waits = Append(@, retryDelay(cl.attempt))]]
                     /\ pc' = [pc EXCEPT ![c] = "backoff"]
                ELSE /\ call' = [call EXCEPT ![c] = [cl EXCEPT
                            !.lastError = o.status, !.result = "thrown"]]
                     /\ pc' = [pc EXCEPT ![c] = "idle"]
    /\ Quiet

\* The same for an fn that touches nothing but the upstream.
FnSettles(c, o) ==
    /\ AttemptEnds(c, o)
    /\ UNCHANGED budget
    /\ UNCHANGED otherVars

\* The backoff sleep ends: attempt++ and the loop goes on.
BackoffDone(c) ==
    /\ ~busySpin
    /\ pc[c] = "backoff"
    /\ call[c].wake <= Now
    /\ Loop(c, [call[c] EXCEPT !.attempt = @ + 1])
    /\ UNCHANGED otherVars

\* The tool layer asks for the limiter's status.
GetRateLimitStatus ==
    /\ ~busySpin
    /\ LET r == getRateLimitStatus(state)
       IN  /\ state' = r.st
           /\ snapshot' = r.value
           /\ ObserveWindows(Outcome(r.st, <<>>, <<>>, FALSE), arrival, {})
    /\ UNCHANGED <<sleepers, busySpin, pc, call, budget>>
    /\ UNCHANGED otherVars

\* The caller of c's withRetry execution gives up while the execution waits
\* in the queue or sleeps its backoff.  waitForRateLimit(priority) and
\* withRetry(fn, maxRetries, priority) take nothing the caller could signal
\* through and a queue entry holds resolve and priority only: the execution
\* is left as it is.
Cancel(c) ==
    /\ ~busySpin
    /\ pc[c] \in {"queued", "backoff"}
    /\ c \notin cancelled
    /\ cancelled' = cancelled \cup {c}
    /\ Quiet
    /\ UNCHANGED <<pc, call, budget, cacheVars, restVars, authVars>>

\* d milliseconds pass: every stored timestamp moves d ms into the past.
Age(stamp, d, window) == Max(stamp - d, Now - window)

Elapse(d) ==
    /\ state' = [state EXCEPT
            !.lastSecondReset = Age(@, d, SECOND_WINDOW_MS),
            !.last2MinutesReset = Age(@, d, TWO_MINUTES_WINDOW_MS)]
    /\ sleepers' = [i \in 1..Len(sleepers) |-> Max(sleepers[i] - d, Now)]
    /\ call' = [c \in Callers |-> [call[c] EXCEPT !.wake = Max(@ - d, Now)]]
    /\ notBefore' = [c \in Callers |-> Max(notBefore[c] - d, Now)]
    /\ recent' = {[at |-> e.at - d, n |-> e.n] :
                     e \in {x \in recent : Now - (x.at - d) < SECOND_WINDOW_MS}}
    /\ admitted' = <<>>
    /\ restarted' = {}
    /\ snapshot' = NoSnapshot
    /\ UNCHANGED <<busySpin, pc, budget, arrival, since>>
    /\ UNCHANGED otherVars

\* The steps of the clock: a fine step while the long window is young or
\* expired, the time left to the next timer, or a whole long window.
LongAge == Now - state.last2MinutesReset
Pending ==
    ({sleepers[i] : i \in 1..Len(sleepers)}
     \cup {call[c].wake : c \in {d \in Callers : pc[d] = "backoff"}}) \ {Now}

TimerTick ==
    /\ ~busySpin
    /\ \/ \E w \in Pending : (\A v \in Pending : w <= v) /\ Elapse(w - Now)
       \/ Elapse(TWO_MINUTES_WINDOW_MS)

Tick ==
    \/ /\ ~busySpin
       /\ \/ LongAge + TickMs <= FineHorizonMs
          \/ LongAge >= TWO_MINUTES_WINDOW_MS
       /\ Elapse(TickMs)
    \/ TimerTick

\* Arrivals in bursts: the clock is seen to advance only while the short
\* window is unused or used up.
BetweenBursts == state.requestsThisSecond \in {0, REQUESTS_PER_SECOND}

BurstTick == BetweenBursts /\ Tick

\* The executions after a step of execution r (of none: r = 0): one that
\* has returned to the tool layer is kept, as history, for one step.
Kept(rs, r) ==
    [q \in ReadIds |->
        IF q # r /\ rs[q].owner = "none" /\ rs[q].pc # "fetching"
        THEN NoRead ELSE rs[q]]

\* ---- actions of the cache --------------------------------------------------

Keys(c) == {c[i].key : i \in 1..Len(c)}

\* The history of a store after a step: key was used with value, stored
\* at the time at (a value of Undefined: no use), and only what the store
\* still holds is kept.
Use(w, key, value, at, kept) ==
    LET others == SelectSeq(w, LAMBDA r : r.key # key)
        used == IF value = Undefined THEN w
                ELSE Append(others, [key |-> key, value |-> value, at |-> at])
    IN  SelectSeq(used, LAMBDA r : r.key \in kept)

WrittenIn(wr, cs, store, key, value, at) ==
    [s \in Stores |->
        IF s = store THEN Use(wr[s], key, value, at, Keys(cs[s]))
        ELSE SelectSeq(wr[s], LAMBDA r : r.key \in Keys(cs[s]))]

Written(cs, store, key, value, at) == WrittenIn(written, cs, store, key, value, at)

Recorded(w, key) ==
    IF \E i \in 1..Len(w) : w[i].key = key
    THEN w[CHOOSE i \in 1..Len(w) : w[i].key = key]
    ELSE NoRecord

InitCache(enabled) ==
    /\ config' = initCache(config, enabled)
    /\ last' = [NoCacheCall EXCEPT !.op = "init"]
    /\ reads' = Kept(reads, 0)
    /\ UNCHANGED <<caches, written, limiterVars, batch, profile, dragonVars>>

CacheGet(store, key) ==
    LET got == cacheGet(config, caches, store, key)
    IN  /\ caches' = got.caches
        /\ written' = Written(got.caches, store, key,
                              IF got.value = Undefined THEN Undefined
                              ELSE Recorded(written[store], key).value,
                              Recorded(written[store], key).at)
        /\ last' = [op |-> "get", store |-> store, key |-> key, value |-> got.value,
                     had |-> Recorded(written[store], key), lru |-> NoRecord]
        /\ UNCHANGED <<config, limiterVars, restVars>>

CacheSet(store, key, value) ==
    LET cs == cacheSet(config, caches, store, key, value)
    IN  /\ caches' = cs
        /\ written' = Written(cs, store, key,
                              IF config.enabled THEN value ELSE Undefined, Now)
        /\ last' = [op |-> "set", store |-> store, key |-> key, value |-> value,
                     had |-> Recorded(written[store], key),
                     lru |-> IF Len(written[store]) < MaxEntries THEN NoRecord
                             ELSE Head(written[store])]
        /\ UNCHANGED <<config, limiterVars, restVars>>

CacheDelete(store, key) ==
    LET cs == cacheDelete(caches, store, key)
    IN  /\ caches' = cs
        /\ written' = Written(cs, store, key, Undefined, Now)
        /\ last' = [NoCacheCall EXCEPT !.op = "delete", !.store = store, !.key = key]
        /\ UNCHANGED <<config, limiterVars, restVars>>

CacheClear(which) ==
    LET cs == cacheClear(caches, which)
    IN  /\ caches' = cs
        /\ written' = Written(cs, "", <<>>, Undefined, Now)
        /\ last' = [NoCacheCall EXCEPT !.op = "clear",
                !.store = IF which = Stores THEN "" ELSE CHOOSE x \in which : TRUE]
        /\ UNCHANGED <<config, limiterVars, restVars>>

\* d milliseconds pass for the stores: an entry older than its ttl is kept
\* at ttl + 1, which isStale cannot tell from any older one.
CacheAge(stamp, d, store) == Max(stamp - d, Now - NamespaceTtl[store] - 1)

CacheElapse(d) ==
    /\ caches' = [s \in Stores |-> [i \in 1..Len(caches[s]) |->
            [caches[s][i] EXCEPT !.start = CacheAge(@, d, s)]]]
    /\ written' = [s \in Stores |-> [i \in 1..Len(written[s]) |->
            [written[s][i] EXCEPT !.at = CacheAge(@, d, s)]]]
    /\ last' = NoCacheCall
    /\ reads' = Kept(reads, 0)
    /\ UNCHANGED <<config, limiterVars, batch, profile, dragonVars>>

\* ---- riot-client.ts ------------------------------------------------------

\* An options object: its properties in insertion order.
OptionPairs == {[name |-> "count", value |-> "10"], [name |-> "queue", value |-> "420"]}
Options ==
    {o \in UNION {[1..n -> OptionPairs] : n \in 0..Cardinality(OptionPairs)} :
        \A i, j \in DOMAIN o : o[i].name = o[j].name => i = j}

\* JSON.stringify of an options object: the defined properties, in
\* insertion order.
RECURSIVE Members(_)
Members(o) ==
    IF o = <<>> THEN <<>>
    ELSE LET m == IF Head(o).value = Undefined THEN <<>>
                  ELSE <<Head(o).name, ":", Head(o).value>>
             rest == Members(Tail(o))
         IN  IF m = <<>> THEN rest
             ELSE IF rest = <<>> THEN m
             ELSE m \o <<",">> \o rest

stringify(o) == <<"{">> \o Members(o) \o <<"}">>

\* The query string of getMatchIds: the parameters in the order of the
\* function's tests.
queryString(o) ==
    LET has(n) == \E i \in DOMAIN o : o[i].name = n /\ o[i].value # Undefined
        val(n) == o[CHOOSE i \in DOMAIN o : o[i].name = n].value
    IN  (IF has("queue") THEN <<"queue=", val("queue")>> ELSE <<>>)
        \o (IF has("count") THEN <<"count=", val("count")>> ELSE <<>>)

\* Two options objects with the same defined properties.
Equivalent(o1, o2) ==
    {p \in Range(o1) : p.value # Undefined} = {p \in Range(o2) : p.value # Undefined}

\* The cached read functions: the store and the key they use, the keys of
\* the equivalent parameter sets, and the resource they ask upstream for.
matchIdsKey(puuid, region, o) == <<"matchIds", puuid, region>> \o stringify(o)

getMatchIds(puuid, options, region) ==
    [fn |-> "getMatchIds", store |-> "matchIds",
     key |-> matchIdsKey(puuid, region, options),
     alike |-> {matchIdsKey(puuid, region, o) : o \in {x \in Options : Equivalent(x, options)}},
     url |-> <<"ids", puuid>> \o queryString(options)]

\* The regions the model calls with, and their routes (regions.ts).
REGION_TO_ROUTE == [euw1 |-> "europe", eun1 |-> "europe", kr |-> "asia"]

getRegionalRoute(region) == REGION_TO_ROUTE[region]

\* The region of a call that names none.
defaultRegion == "euw1"

getMatch(matchId, region) ==
    [fn |-> "getMatch", store |-> "matchDetails", key |-> <<"match", matchId>>,
     alike |-> {<<"match", matchId>>},
     url |-> <<"matches", getRegionalRoute(region), matchId>>]

getMatchTimeline(matchId, region) ==
    [fn |-> "getMatchTimeline", store |-> "matchDetails",
     key |-> <<"timeline", matchId>>,
     alike |-> {<<"timeline", matchId>>},
     url |-> <<"timelines", getRegionalRoute(region), matchId>>]

getCurrentGame(puuid, region) ==
    [fn |-> "getCurrentGame", store |-> "liveGame",
     key |-> <<"livegame", puuid, region>>,
     alike |-> {<<"livegame", puuid, region>>},
     url |-> <<"active-games", puuid>>]

getAccountByRiotId(gameName, tagLine, region) ==
    [fn |-> "getAccountByRiotId", store |-> "playerProfile",
     key |-> <<"account", gameName, "#", tagLine, region>>,
     alike |-> {<<"account", gameName, "#", tagLine, region>>},
     url |-> <<"accounts", gameName, tagLine>>]

getSummonerByPuuid(puuid, region) ==
    [fn |-> "getSummonerByPuuid", store |-> "playerProfile",
     key |-> <<"summoner", puuid, region>>,
     alike |-> {<<"summoner", puuid, region>>},
     url |-> <<"summoners", puuid>>]

getRankedEntries(puuid, region) ==
    [fn |-> "getRankedEntries", store |-> "rankedInfo",
     key |-> <<"ranked", puuid, region>>,
     alike |-> {<<"ranked", puuid, region>>},
     url |-> <<"entries", puuid>>]

\* What the upstream holds under a url, named by a string: a match or a
\* timeline by its route and id, an account by its puuid, a list of match
\* ids by its query.
json(url) ==
    IF url[1] \in {"matches", "timelines"} THEN url[1] \o "/" \o url[2] \o "/" \o url[3]
    ELSE IF url[1] = "accounts" THEN url[2]
    ELSE IF url[1] = "ids"
    THEN IF Len(url) = 2 THEN "ids"
         ELSE IF Len(url) = 6 THEN "ids?queue&count"
         ELSE IF url[3] = "queue=" THEN "ids?queue" ELSE "ids?count"
    ELSE url[1]

\* Variant: nothing cached is used.
isCachedNever(fn, cached) == FALSE

\* The test a read function applies to what cacheGet returned.
isCached(fn, cached) ==
    IF fn = "getCurrentGame" THEN cached # Undefined
    ELSE cached \notin {Undefined, Null}

\* The maxRetries riotFetch passes to withRetry.
riotFetchRetries == 3

\* The test of getCurrentGame's catch block.
isNotFound(message) == Includes(message, <<"4", "0", "4">>)

\* A record of the history is younger than its store's TTL.
Fresh(rec, store) == rec.value # Undefined /\ Now - rec.at < NamespaceTtl[store]

\* A read function is called for execution r: it runs to its first await.
\* w holds the stores, their history and the executions.
begin(cfg, w, r, c, owner) ==
    LET got == cacheGet(cfg, w.caches, c.store, c.key)
        rec == Recorded(w.written[c.store], c.key)
        found == isCached(c.fn, got.value)
    IN  [caches |-> got.caches,
         written |-> WrittenIn(w.written, got.caches, c.store, c.key,
                               IF got.value = Undefined THEN Undefined ELSE rec.value,
                               rec.at),
         reads |-> [w.reads EXCEPT ![r] = [NoRead EXCEPT
             !.fn = c.fn, !.store = c.store, !.key = c.key, !.url = c.url,
             !.owner = owner,
             !.pc = IF found THEN "returned" ELSE "fetching",
             !.value = IF found THEN got.value ELSE Undefined,
             !.requests = IF found THEN 0 ELSE 1,
             !.hit = found,
             !.fresh = cfg.enabled /\ Fresh(rec, c.store),
             !.had = rec.value,
             !.known = cfg.enabled /\ \E k \in c.alike :
                            Fresh(Recorded(w.written[c.store], k), c.store)]]]

\* The read function stores value and returns it.
storeAndReturn(cfg, w, r, value, status) ==
    LET rd == w.reads[r]
        cs == cacheSet(cfg, w.caches, rd.store, rd.key, value)
    IN  [caches |-> cs,
         written |-> WrittenIn(w.written, cs, rd.store, rd.key,
                               IF cfg.enabled THEN value ELSE Undefined, Now),
         reads |-> [w.reads EXCEPT ![r] = [rd EXCEPT
             !.pc = "returned", !.value = value, !.status = status,
             !.stored = cfg.enabled]]]

\* Variant: getCurrentGame takes every error for the absence of a game.
settleAbsentOnError(cfg, w, r, o) ==
    LET rd == w.reads[r]
        message == errorMessage(o)
    IN  IF ResponseOk(o) THEN storeAndReturn(cfg, w, r, json(rd.url), o.status)
        ELSE IF isRateLimited(message) /\ hasAttempt(rd.attempt + 1, riotFetchRetries)
        THEN [w EXCEPT !.reads[r] = [rd EXCEPT
                 !.attempt = @ + 1, !.requests = @ + 1, !.status = o.status]]
        ELSE IF rd.fn = "getCurrentGame"
        THEN storeAndReturn(cfg, w, r, Null, o.status)
        ELSE [w EXCEPT !.reads[r] = [rd EXCEPT
                 !.pc = "thrown", !.error = message, !.status = o.status]]

\* The request of execution r is answered with o: riotFetch's withRetry
\* returns the body, makes the next attempt, or throws, and the read
\* function goes on from its await.
settle(cfg, w, r, o) ==
    LET rd == w.reads[r]
        message == errorMessage(o)
    IN  IF ResponseOk(o) THEN storeAndReturn(cfg, w, r, json(rd.url), o.status)
        ELSE IF isRateLimited(message) /\ hasAttempt(rd.attempt + 1, riotFetchRetries)
        THEN [w EXCEPT !.reads[r] = [rd EXCEPT
                 !.attempt = @ + 1, !.requests = @ + 1, !.status = o.status]]
        ELSE IF rd.fn = "getCurrentGame" /\ isNotFound(message)
        THEN storeAndReturn(cfg, w, r, Null, o.status)
        ELSE [w EXCEPT !.reads[r] = [rd EXCEPT
                 !.pc = "thrown", !.error = message, !.status = o.status]]

\* getMatches: the batch size. The source's 10 is scaled to the number of
\* executions the model holds at once.
batchSize == MaxReads

Min(a, b) == IF a <= b THEN a ELSE b

\* batch.map(...): getMatch is called for each id of the batch, in order,
\* each call running to its first await.
RECURSIVE beginAll(_, _, _, _)
beginAll(cfg, w, ids, k) ==
    IF k > Len(ids) THEN w
    ELSE beginAll(cfg, begin(cfg, w, k, getMatch(ids[k], defaultRegion), "getMatches"), ids, k + 1)

\* Variant: a failed item is passed on as it is.
itemResultUncaught(rd) == rd.value

\* The try/catch around an item: its match, or null when getMatch threw.
itemResult(rd) == IF rd.pc = "returned" THEN rd.value ELSE Null

\* Variant: the loop goes on with the first item that has settled.
promiseRace(w, n) == n = 0 \/ \E k \in 1..n : w.reads[k].pc # "fetching"

\* Promise.all of the n items of a batch is fulfilled: every item has
\* settled (an item never rejects, its catch block returning null).
promiseAll(w, n) == \A k \in 1..n : w.reads[k].pc # "fetching"

\* Promise.all has resolved: the matches of the batch are pushed and the
\* loop variable moves on.
collect(w, b) ==
    LET n == Min(batchSize, Len(b.matchIds) - b.i)
        batchResults == [k \in 1..n |-> itemResult(w.reads[k])]
    IN  [b EXCEPT !.matches = @ \o SelectSeq(batchResults, LAMBDA x : x # Null),
                  !.i = @ + batchSize]

\* The for loop of getMatches, from its test to the next await that does
\* not resolve at once, or to the return.
RECURSIVE runBatches(_, _, _)
runBatches(cfg, w, b) ==
    LET idle == [w EXCEPT !.reads = [q \in ReadIds |-> NoRead]]
    IN  IF ~(b.i < Len(b.matchIds))
        THEN [world |-> idle, batch |-> [b EXCEPT !.pc = "returned"]]
        ELSE LET ids == SubSeq(b.matchIds, b.i + 1,
                               Min(b.i + batchSize, Len(b.matchIds)))
                 w1 == beginAll(cfg, idle, ids, 1)
             IN  IF promiseAll(w1, Len(ids))
                 THEN runBatches(cfg, w1, collect(w1, b))
                 ELSE [world |-> w1, batch |-> [b EXCEPT !.pc = "awaiting"]]

\* Variant: the ranked lookup is left for later.
startDependentsInTurn(cfg, w, puuid, region) ==
    begin(cfg, [w EXCEPT !.reads = [q \in ReadIds |-> NoRead]], 1,
          getSummonerByPuuid(puuid, region), "getPlayerProfile")

\* The array handed to Promise.all: getSummonerByPuuid and then
\* getRankedEntries are called, each running to its first await.
startDependents(cfg, w, puuid, region) ==
    begin(cfg,
          begin(cfg, [w EXCEPT !.reads = [q \in ReadIds |-> NoRead]], 1,
                getSummonerByPuuid(puuid, region), "getPlayerProfile"),
          2, getRankedEntries(puuid, region), "getPlayerProfile")

\* Promise.all of the two lookups: rejected by the lookup that throws,
\* fulfilled when both have returned.
allSettled(w, p, r) ==
    IF p.pc # "dependents" THEN p
    ELSE IF r \in {1, 2} /\ w.reads[r].pc = "thrown"
    THEN [p EXCEPT !.pc = "thrown", !.error = w.reads[r].error]
    ELSE IF w.reads[1].pc = "returned" /\ w.reads[2].pc = "returned"
    THEN [p EXCEPT !.pc = "returned"]
    ELSE p

\* getPlayerProfile after its first await: the account lookup has settled.
afterAccount(cfg, w, p) ==
    LET rd == w.reads[1]
    IN  IF rd.pc = "thrown"
        THEN [world |-> w, profile |-> [p EXCEPT !.pc = "thrown", !.error = rd.error]]
        ELSE LET w1 == startDependents(cfg, w, rd.value, p.region)
             IN  [world |-> w1,
                  profile |-> allSettled(w1, [p EXCEPT !.pc = "dependents",
                                                      !.account = rd.value], 0)]

\* ---- actions of the client ------------------------------------------------

World == [caches |-> caches, written |-> written, reads |-> reads]

\* The step of execution r leaves the world w.
Becomes(w, r) ==
    /\ caches' = w.caches
    /\ written' = w.written
    /\ reads' = Kept(w.reads, r)
    /\ last' = NoCacheCall

\* A read function is called by the tool layer.
Call(r, c) ==
    /\ reads[r].pc # "fetching"
    /\ \A q \in ReadIds : q < r => reads[q].pc = "fetching"
    /\ \A q \in ReadIds : reads[q].owner = "none"
    /\ budget > 0
    /\ budget' = budget - 1
    /\ Becomes(begin(config, World, r, c, "none"), r)
    /\ UNCHANGED <<config, batch, profile, limiterBut, dragonVars>>

GetMatch(r, matchId) == Call(r, getMatch(matchId, defaultRegion))

GetMatchIn(r, matchId, region) == Call(r, getMatch(matchId, region))

GetMatchTimeline(r, matchId, region) == Call(r, getMatchTimeline(matchId, region))

GetCurrentGame(r, puuid, region) == Call(r, getCurrentGame(puuid, region))

GetMatchIds(r, puuid, options, region) == Call(r, getMatchIds(puuid, options, region))

\* The upstream answers the request of execution r.
Respond(r, o) ==
    /\ reads[r].pc = "fetching"
    /\ reads[r].owner = "none"
    /\ Becomes(settle(config, World, r, o), r)
    /\ UNCHANGED <<config, batch, profile, limiterVars, dragonVars>>

\* The hooks a caller may register: one that has no key to give, one that
\* gives another key.
Callbacks == [returnsNone |-> Null, returnsKey |-> "key2"]

\* setApiKeyRefreshCallback(callback)
SetApiKeyRefreshCallback(callback) ==
    /\ \A q \in ReadIds : reads[q].pc # "fetching"
    /\ refreshCallback # callback
    /\ refreshCallback' = callback
    /\ reads' = Kept(reads, 0)
    /\ UNCHANGED <<riotApiKey, refreshed, state, sleepers, busySpin, pc, call, budget,
                   admitted, notBefore, arrival, restarted, since, recent, snapshot,
                   cacheVars, batch, profile, dragonVars, cancelled>>

\* The key of the next call after an authentication failure: the hook is
\* invoked once the failed call has returned to its caller, and a key it
\* gives replaces the module's.
refreshApiKey(key, callback) ==
    LET given == Callbacks[callback]
    IN  [key |-> IF given = Null THEN key ELSE given, returned |-> given]

RefreshApiKey ==
    /\ refreshCallback # Null
    /\ \A q \in ReadIds : reads[q].pc # "fetching"
    /\ \E q \in ReadIds : reads[q].pc = "thrown" /\ reads[q].status = 401
    /\ LET r == refreshApiKey(riotApiKey, refreshCallback)
       IN  /\ riotApiKey' = r.key
           /\ refreshed' = r.returned
    /\ reads' = Kept(reads, 0)
    /\ UNCHANGED <<refreshCallback, state, sleepers, busySpin, pc, call, budget,
                   admitted, notBefore, arrival, restarted, since, recent, snapshot,
                   cacheVars, batch, profile, dragonVars, cancelled>>

\* The history of a getMatches execution: per input position, whether the
\* match was found in the store or fetched ("ok"), or its fetch failed.
Fetched(b, w0, w1) ==
    [p \in 1..Len(b.matchIds) |->
        LET k == p - b.i
        IN  IF k \in 1..batchSize /\ w1.reads[k].owner = "getMatches"
               /\ w1.reads[k].pc # "fetching" /\ b.fetched[p] = "pending"
            THEN IF w1.reads[k].hit \/ w1.reads[k].status = 200 THEN "ok" ELSE "failed"
            ELSE b.fetched[p]]

\* The history over the batches a step goes through.
RECURSIVE FetchedThrough(_, _, _)
FetchedThrough(cfg, w, b) ==
    IF ~(b.i < Len(b.matchIds)) THEN b.fetched
    ELSE LET ids == SubSeq(b.matchIds, b.i + 1,
                           Min(b.i + batchSize, Len(b.matchIds)))
             w1 == beginAll(cfg, [w EXCEPT !.reads = [q \in ReadIds |-> NoRead]], ids, 1)
             f == Fetched(b, w, w1)
         IN  IF promiseAll(w1, Len(ids))
             THEN FetchedThrough(cfg, w1, [collect(w1, b) EXCEPT !.fetched = f])
             ELSE f

\* getMatches(matchIds) is called.
GetMatches(matchIds) ==
    /\ batch.pc # "awaiting"
    /\ \A q \in ReadIds : reads[q].pc # "fetching"
    /\ budget > 0
    /\ budget' = budget - 1
    /\ LET b == [NoBatch EXCEPT !.matchIds = matchIds,
                                !.fetched = [p \in 1..Len(matchIds) |-> "pending"]]
           out == runBatches(config, World, b)
       IN  /\ batch' = [out.batch EXCEPT !.fetched = FetchedThrough(config, World, b)]
           /\ caches' = out.world.caches
           /\ written' = out.world.written
           /\ reads' = out.world.reads
    /\ last' = NoCacheCall
    /\ UNCHANGED <<config, profile, limiterBut, dragonVars>>

\* The upstream answers the request of an item of the batch; when that
\* settles the last item of the batch, the loop goes on.
BatchRespond(r, o) ==
    /\ reads[r].pc = "fetching"
    /\ reads[r].owner = "getMatches"
    /\ LET w1 == settle(config, World, r, o)
           b1 == [batch EXCEPT !.fetched = Fetched(batch, World, w1)]
           n == Min(batchSize, Len(batch.matchIds) - batch.i)
       IN  IF promiseAll(w1, n)
           THEN LET b2 == collect(w1, b1)
                    out == runBatches(config, w1, b2)
                IN  /\ batch' = [out.batch EXCEPT
                                    !.fetched = FetchedThrough(config, w1, b2)]
                    /\ caches' = out.world.caches
                    /\ written' = out.world.written
                    /\ reads' = out.world.reads
           ELSE /\ batch' = b1
                /\ caches' = w1.caches
                /\ written' = w1.written
                /\ reads' = w1.reads
    /\ last' = NoCacheCall
    /\ UNCHANGED <<config, profile, limiterBut, budget, dragonVars>>

\* getPlayerProfile(gameName, tagLine, region) is called.
GetPlayerProfile(gameName, tagLine, region) ==
    /\ profile.pc \notin {"account", "dependents"}
    /\ \A q \in ReadIds : reads[q].pc # "fetching"
    /\ budget > 0
    /\ budget' = budget - 1
    /\ LET w1 == begin(config, [World EXCEPT !.reads = [q \in ReadIds |-> NoRead]], 1,
                       getAccountByRiotId(gameName, tagLine, region), "getPlayerProfile")
           p == [NoProfile EXCEPT !.pc = "account", !.region = region]
           out == IF w1.reads[1].pc = "fetching"
                  THEN [world |-> w1, profile |-> p]
                  ELSE afterAccount(config, w1, p)
       IN  /\ profile' = out.profile
           /\ caches' = out.world.caches
           /\ written' = out.world.written
           /\ reads' = out.world.reads
    /\ last' = NoCacheCall
    /\ UNCHANGED <<config, batch, limiterBut, dragonVars>>

\* The upstream answers a request of the profile's lookups, and
\* getPlayerProfile goes on if what it awaits has settled.
ProfileRespond(r, o) ==
    /\ reads[r].pc = "fetching"
    /\ reads[r].owner = "getPlayerProfile"
    /\ LET w1 == settle(config, World, r, o)
           out == IF profile.pc = "account" /\ w1.reads[r].pc # "fetching"
                  THEN afterAccount(config, w1, profile)
                  ELSE [world |-> w1, profile |-> allSettled(w1, profile, r)]
       IN  /\ profile' = out.profile
           /\ caches' = out.world.caches
           /\ written' = out.world.written
           /\ reads' = out.world.reads
    /\ last' = NoCacheCall
    /\ UNCHANGED <<config, batch, limiterBut, budget, dragonVars>>

\* A part of the store's TTL passes.
StoreElapse(store) == CacheElapse(NamespaceTtl[store] \div TicksPerTtl)

\* ---- data-dragon.ts -------------------------------------------------------

\* parseInt(s, 10) of a string of decimal digits.
DigitOf(ch) == (CHOOSE i \in 1..10 :
                   <<"0", "1", "2", "3", "4", "5", "6", "7", "8", "9">>[i] = ch) - 1

RECURSIVE parseInt(_)
parseInt(s) ==
    IF Len(s) = 1 THEN DigitOf(s[1])
    ELSE 10 * parseInt(SubSeq(s, 1, Len(s) - 1)) + DigitOf(s[Len(s)])

\* The item.json bodies the upstream may hold, by name: the property names
\* of data and the items under them.
ItemMap(name) ==
    IF name = "itemsA"
    THEN {[key |-> <<"1", "0", "0", "1">>, item |-> "Boots"]}
    ELSE {[key |-> <<"0">>, item |-> "Empty"],
          [key |-> <<"1", "0", "0", "1">>, item |-> "Boots"],
          [key |-> <<"3", "0", "0", "6">>, item |-> "Greaves"]}

\* indexItems: the index is rebuilt from the entries of items.
indexItems(name) == {[id |-> parseInt(e.key), item |-> e.item] : e \in ItemMap(name)}

\* Variant: the index is asked whatever the id.
getItemByIdUnguarded(index, id) ==
    IF \E e \in index : e.id = id
    THEN (CHOOSE e \in index : e.id = id).item
    ELSE Null

\* getItemById: the item's name stands for the resolved item.
getItemById(index, id) ==
    IF id = 0 THEN Null
    ELSE IF \E e \in index : e.id = id
    THEN (CHOOSE e \in index : e.id = id).item
    ELSE Null

\* Map.prototype.set and get on a map held as a set of key/value pairs.
mapSet(m, key, value) == {e \in m : e.key # key} \cup {[key |-> key, value |-> value]}

mapGet(m, key) ==
    IF \E e \in m : e.key = key THEN (CHOOSE e \in m : e.key = key).value
    ELSE Undefined

\* String.prototype.toLowerCase on the letters the names are written with.
UpperCase == [A |-> "a", K |-> "k", M |-> "m", W |-> "w"]

toLowerCase(s) ==
    [i \in 1..Len(s) |-> IF s[i] \in DOMAIN UpperCase THEN UpperCase[s[i]] ELSE s[i]]

\* The champion.json bodies the upstream may hold, by name: the entries of
\* data in order, each with its property name, its key and its name.
Annie == [prop |-> <<"A", "n", "n", "i", "e">>, key |-> <<"1">>,
          name |-> <<"A", "n", "n", "i", "e">>, champion |-> "Annie"]
Wukong == [prop |-> <<"M", "o", "n", "k", "e", "y", "K", "i", "n", "g">>,
           key |-> <<"6", "2">>,
           name |-> <<"W", "u", "k", "o", "n", "g">>, champion |-> "Wukong"]

ChampionMap(name) == IF name = "championsA" THEN <<Annie>> ELSE <<Annie, Wukong>>

\* summoner.json and runesReforged.json.
SummonerSpellMap(name) == <<[key |-> <<"4">>, spell |-> "Flash"]>>

RuneTrees(name) ==
    <<[id |-> 8000, name |-> "Precision",
       slots |-> <<<<[id |-> 8005, name |-> "Press the Attack"]>>,
                   <<[id |-> 9111, name |-> "Triumph"]>>>>]>>

\* The loop of indexChampions over the entries left, on the two maps ix.
RECURSIVE indexEntries(_, _)
indexEntries(entries, ix) ==
    IF entries = <<>> THEN ix
    ELSE LET c == Head(entries)
             id == parseInt(c.key)
         IN  indexEntries(Tail(entries),
                 [byId |-> mapSet(ix.byId, id, c.champion),
                  byName |-> mapSet(mapSet(ix.byName, toLowerCase(c.prop), c.champion),
                                    toLowerCase(c.name), c.champion)])

\* Variant: championsByName is not cleared.
indexChampionsKeepNames(d, name) ==
    LET ix == indexEntries(ChampionMap(name), [byId |-> {}, byName |-> d.championsByName])
    IN  [d EXCEPT !.championsById = ix.byId, !.championsByName = ix.byName]

\* indexChampions: both maps are cleared and filled in one synchronous run.
indexChampions(d, name) ==
    LET ix == indexEntries(ChampionMap(name), [byId |-> {}, byName |-> {}])
    IN  [d EXCEPT !.championsById = ix.byId, !.championsByName = ix.byName]

RECURSIVE spellEntries(_, _)
spellEntries(spells, m) ==
    IF spells = <<>> THEN m
    ELSE spellEntries(Tail(spells),
                      mapSet(m, parseInt(Head(spells).key), Head(spells).spell))

indexSpells(d, name) ==
    [d EXCEPT !.spellsById = spellEntries(SummonerSpellMap(name), {})]

\* The runes of a tree, slot by slot.
RECURSIVE Flatten(_)
Flatten(slots) == IF slots = <<>> THEN <<>> ELSE Head(slots) \o Flatten(Tail(slots))

RECURSIVE runeEntries(_, _, _)
runeEntries(runes, tree, m) ==
    IF runes = <<>> THEN m
    ELSE runeEntries(Tail(runes), tree,
                     mapSet(m, Head(runes).id, [rune |-> Head(runes).name, tree |-> tree]))

RECURSIVE treeEntries(_, _)
treeEntries(trees, m) ==
    IF trees = <<>> THEN m
    ELSE LET tree == Head(trees)
         IN  treeEntries(Tail(trees),
                 runeEntries(Flatten(tree.slots), tree.name,
                     mapSet(m, tree.id, [rune |-> tree.name, tree |-> tree.name])))

indexRunes(d, name) == [d EXCEPT !.runesById = treeEntries(RuneTrees(name), {})]

\* getChampionById, getChampionByName, getSummonerSpellById, getRuneById: the
\* name of the entity stands for the resolved object.
getChampionById(m, id) ==
    LET champion == mapGet(m, id)
    IN  IF champion = Undefined THEN Null ELSE champion

getChampionByName(m, name) ==
    LET champion == mapGet(m, toLowerCase(name))
    IN  IF champion = Undefined THEN Null ELSE champion

getSummonerSpellById(m, id) ==
    LET spell == mapGet(m, id)
    IN  IF spell = Undefined THEN Null ELSE spell

getRuneById(m, id) ==
    IF \E e \in m : e.key = id THEN (CHOOSE e \in m : e.key = id).value.rune
    ELSE Null

\* The data-dragon state the load functions act on.
Dragon == [caches |-> caches, written |-> written, currentVersion |-> currentVersion,
           itemsById |-> itemsById, championsById |-> championsById,
           championsByName |-> championsByName, spellsById |-> spellsById,
           runesById |-> runesById, indexed |-> indexed, loaders |-> loaders,
           versionRequests |-> versionRequests]

\* cacheGet and cacheSet on the dataDragon store, with the history.
dragonGet(cfg, d, key) ==
    LET got == cacheGet(cfg, d.caches, "dataDragon", key)
        rec == Recorded(d.written["dataDragon"], key)
    IN  [value |-> got.value,
         dragon |-> [d EXCEPT !.caches = got.caches,
             !.written = WrittenIn(d.written, got.caches, "dataDragon", key,
                                   IF got.value = Undefined THEN Undefined ELSE rec.value,
                                   rec.at)]]

dragonSet(cfg, d, key, value) ==
    LET cs == cacheSet(cfg, d.caches, "dataDragon", key, value)
    IN  [d EXCEPT !.caches = cs,
            !.written = WrittenIn(d.written, cs, "dataDragon", key,
                                  IF cfg.enabled THEN value ELSE Undefined, Now)]

\* indexChampions, indexItems, indexSpells, indexRunes.
index(d, l, data) ==
    IF Kinds[l] = "items" THEN [d EXCEPT !.itemsById = indexItems(data)]
    ELSE LET d1 == [d EXCEPT !.indexed[Kinds[l]] = data]
         IN  IF Kinds[l] = "champions" THEN indexChampions(d1, data)
             ELSE IF Kinds[l] = "summoner" THEN indexSpells(d1, data)
             ELSE indexRunes(d1, data)

\* A load function after await getLatestVersion(): the cached data is
\* indexed, or the data is asked for.
afterVersion(cfg, d, l, version) ==
    LET got == dragonGet(cfg, d, <<Kinds[l], version>>)
    IN  IF got.value \notin {Undefined, Null}
        THEN [index(got.dragon, l, got.value) EXCEPT
                 !.loaders[l] = [pc |-> "done", version |-> version]]
        ELSE [got.dragon EXCEPT !.loaders[l] = [pc |-> "data", version |-> version]]

\* Load function l calls getLatestVersion and runs to its first await that
\* waits for the upstream.
getLatestVersion(cfg, d, l) ==
    IF d.currentVersion # Null THEN afterVersion(cfg, d, l, d.currentVersion)
    ELSE LET got == dragonGet(cfg, d, <<"version">>)
         IN  IF got.value \notin {Undefined, Null}
             THEN afterVersion(cfg, [got.dragon EXCEPT !.currentVersion = got.value],
                               l, got.value)
             ELSE [got.dragon EXCEPT
                      !.loaders[l] = [pc |-> "version", version |-> Undefined],
                      !.versionRequests = @ + 1]

\* The array of initDataDragon's Promise.all: the four load functions are
\* called in turn.
RECURSIVE loadAll(_, _, _)
loadAll(cfg, d, l) ==
    IF l > Len(Kinds) THEN d
    ELSE loadAll(cfg, getLatestVersion(cfg, d, l), l + 1)

\* /api/versions.json is answered to load function l.
versionSettles(cfg, d, l, o, version) ==
    IF ~ResponseOk(o)
    THEN [d EXCEPT !.loaders[l] = [pc |-> "failed", version |-> Undefined]]
    ELSE afterVersion(cfg,
             dragonSet(cfg, [d EXCEPT !.currentVersion = version], <<"version">>, version),
             l, version)

\* Variant: a load that fails leaves the indexes empty.
dataSettlesClearing(cfg, d, l, o, data) ==
    IF ~ResponseOk(o)
    THEN [d EXCEPT !.loaders[l] = [pc |-> "failed", version |-> d.loaders[l].version],
                   !.championsById = {}, !.championsByName = {},
                   !.itemsById = {}, !.spellsById = {}, !.runesById = {}]
    ELSE [index(dragonSet(cfg, d, <<Kinds[l], d.loaders[l].version>>, data), l, data)
             EXCEPT !.loaders[l] = [pc |-> "done", version |-> d.loaders[l].version]]

\* The data file is answered to load function l.
dataSettles(cfg, d, l, o, data) ==
    IF ~ResponseOk(o)
    THEN [d EXCEPT !.loaders[l] = [pc |-> "failed", version |-> d.loaders[l].version]]
    ELSE [index(dragonSet(cfg, d, <<Kinds[l], d.loaders[l].version>>, data), l, data)
             EXCEPT !.loaders[l] = [pc |-> "done", version |-> d.loaders[l].version]]

\* ---- actions of data-dragon.ts ---------------------------------------------

DragonIs(d) ==
    /\ caches' = d.caches
    /\ written' = d.written
    /\ currentVersion' = d.currentVersion
    /\ itemsById' = d.itemsById
    /\ championsById' = d.championsById
    /\ championsByName' = d.championsByName
    /\ spellsById' = d.spellsById
    /\ runesById' = d.runesById
    /\ indexed' = d.indexed
    /\ loaders' = d.loaders
    /\ versionRequests' = d.versionRequests
    /\ last' = NoCacheCall

DragonBecomes(d) ==
    /\ DragonIs(d)
    /\ resolved' = NoResolved

\* initDataDragon() is called.
InitDataDragon ==
    /\ \A l \in DOMAIN Kinds : loaders[l].pc \notin {"version", "data"}
    /\ budget > 0
    /\ budget' = budget - 1
    /\ DragonBecomes(loadAll(config,
           [Dragon EXCEPT !.loaders = [l \in DOMAIN Kinds |-> NoLoader]], 1))
    /\ UNCHANGED <<config, clientVars, limiterBut>>

VersionSettles(l, o, version) ==
    /\ loaders[l].pc = "version"
    /\ DragonBecomes(versionSettles(config, Dragon, l, o, version))
    /\ UNCHANGED <<config, clientVars, limiterBut, budget>>

DataSettles(l, o, data) ==
    /\ loaders[l].pc = "data"
    /\ DragonBecomes(dataSettles(config, Dragon, l, o, data))
    /\ UNCHANGED <<config, clientVars, limiterBut, budget>>

\* getItemById(id) is called.
Resolve(fn, id, name, value) ==
    /\ resolved' = [fn |-> fn, id |-> id, name |-> name, value |-> value]
    /\ UNCHANGED <<cacheVars, clientVars, limiterVars, currentVersion, indexVars,
                   indexed, loaders, versionRequests>>

GetItemById(id) == Resolve("getItemById", id, <<>>, getItemById(itemsById, id))

\* Variant: a lookup in an empty index starts loadChampions.
GetChampionByIdLoading(id) ==
    /\ resolved' = [fn |-> "getChampionById", id |-> id, name |-> <<>>,
                    value |-> getChampionById(championsById, id)]
    /\ IF championsById = {} /\ loaders[1].pc \notin {"version", "data"}
       THEN DragonIs(getLatestVersion(config, Dragon, 1))
       ELSE UNCHANGED <<cacheVars, currentVersion, indexVars, indexed, loaders,
                        versionRequests>>
    /\ UNCHANGED <<config, clientVars, limiterVars>>

GetChampionById(id) ==
    Resolve("getChampionById", id, <<>>, getChampionById(championsById, id))

GetChampionByName(name) ==
    Resolve("getChampionByName", -1, name, getChampionByName(championsByName, name))

GetSummonerSpellById(id) ==
    Resolve("getSummonerSpellById", id, <<>>, getSummonerSpellById(spellsById, id))

GetRuneById(id) == Resolve("getRuneById", id, <<>>, getRuneById(runesById, id))

\* ---- specifications ------------------------------------------------------

\* A timer that is due fires: weak fairness of TimerFire, written with the
\* condition under which TimerFire is enabled.
TimerDue == ~busySpin /\ \E i \in 1..Len(sleepers) : sleepers[i] <= Now

TimersFire ==
    \/ []<>(~TimerDue)
    \/ []<><<\E i \in 1..Len(sleepers) : TimerFire(i)>>_vars

\* The limiter under single calls arriving in bursts.
Next ==
    \/ \E c \in Callers, p \in Priorities : Acquire(c, p)
    \/ \E i \in 1..Len(sleepers) : TimerFire(i)
    \/ BurstTick

Spec == Init /\ [][Next]_vars

\* The same limiter with its status asked for at any time.
StatusNext ==
    \/ Next
    \/ GetRateLimitStatus

StatusSpec == Init /\ [][StatusNext]_vars

\* The same limiter under one burst of REQUESTS_PER_SECOND + NumCallers
\* calls; timers fire and time passes.
BurstNext ==
    \/ \E c \in Callers, p \in Priorities : BurstAcquire(c, p)
    \/ \E i \in 1..Len(sleepers) : TimerFire(i)
    \/ BurstTick

BurstSpec ==
    /\ Init /\ [][BurstNext]_vars
    /\ WF_vars(BurstTick)
    /\ TimersFire

\* The limiter under endless traffic: calls that find the windows used up,
\* and other clients that take whatever the windows offer.
Overflow(c, priority) ==
    /\ ~canMakeRequest(resetCountersIfNeeded(state))
    /\ Acquire(c, priority)

LiveNext ==
    \/ \E c \in Callers, p \in Priorities : Overflow(c, p)
    \/ Flood
    \/ \E i \in 1..Len(sleepers) : TimerFire(i)
    \/ Tick

LiveSpec ==
    /\ Init /\ [][LiveNext]_vars
    /\ WF_vars(Tick)
    /\ TimersFire

\* One withRetry execution at a time next to single calls, MAX_RETRIES + 1
\* + NumCallers calls of waitForRateLimit in all, on a limiter that other
\* clients left unused or with its short window used up.
RetryBudgets == 0..MAX_RETRIES

RetryInit ==
    \E used \in {0, REQUESTS_PER_SECOND} :
        Start(used, used, MAX_RETRIES + 1 + NumCallers)

RetryNext ==
    \/ \E c \in Callers, m \in RetryBudgets, p \in Priorities : WithRetry(c, m, p)
    \/ \E c \in Callers, o \in Outcomes : FnSettles(c, o)
    \/ \E c \in Callers : BackoffDone(c)
    \/ \E i \in 1..Len(sleepers) : TimerFire(i)
    \/ TimerTick

RetrySpec == RetryInit /\ [][RetryNext]_vars

\* The same executions with callers that give up, one per run.
CancelNext ==
    \/ \E c \in Callers, m \in RetryBudgets, p \in Priorities :
            cancelled = {} /\ WithRetry(c, m, p)
    \/ \E c \in Callers, o \in Outcomes : FnSettles(c, o)
    \/ \E c \in Callers : BackoffDone(c)
    \/ \E c \in Callers : cancelled = {} /\ Cancel(c)
    \/ \E i \in 1..Len(sleepers) : TimerFire(i)
    \/ TimerTick

CancelSpec == RetryInit /\ [][CancelNext]_vars

\* The cache store by itself: calls on the liveGame store with
\* MaxEntries + 1 keys, the switch, and the clock.
KeyNames == <<"k1", "k2", "k3", "k4", "k5">>
CacheNames == {KeyNames[i] : i \in 1..(MaxEntries + 1)}
CacheKeys == {<<n>> : n \in CacheNames}
CacheValues == {"v1", Null}

CacheNext ==
    \/ \E b \in BOOLEAN : InitCache(b)
    \/ \E k \in CacheKeys : CacheGet("liveGame", k)
    \/ \E k \in CacheKeys, v \in CacheValues \cup {Undefined} : CacheSet("liveGame", k, v)
    \/ \E k \in CacheKeys : CacheDelete("liveGame", k)
    \/ \E which \in {{"liveGame"}, Stores} : CacheClear(which)
    \/ CacheElapse(CacheTickMs)

CacheSpec == Init /\ [][CacheNext]_vars

\* Two stores called with the same keys; no time passes.
TwoStores == {"liveGame", "matchIds"}

StoresNext ==
    \/ \E n \in TwoStores, k \in CacheKeys : CacheSet(n, k, "v1")
    \/ \E n \in TwoStores, k \in CacheKeys : CacheDelete(n, k)
    \/ \E which \in {{n} : n \in TwoStores} \cup {Stores} : CacheClear(which)

StoresSpec == Init /\ [][StoresNext]_vars

\* The tool layer makes MaxCalls calls.
ClientStart == Start(0, 0, MaxCalls)

\* The live-game lookup for two players.
Puuids == {"p1", "p2"}
Regions == {"euw1"}

GameNext ==
    \/ \E r \in ReadIds, p \in Puuids, g \in Regions : GetCurrentGame(r, p, g)
    \/ \E r \in ReadIds, o \in Outcomes : Respond(r, o)
    \/ \E b \in BOOLEAN : InitCache(b)
    \/ StoreElapse("liveGame")

GameSpec == ClientStart /\ [][GameNext]_vars

\* The match lookup for two matches.
MatchIds == {"m1", "m2"}

MatchNext ==
    \/ \E r \in ReadIds, m \in MatchIds : GetMatch(r, m)
    \/ \E r \in ReadIds, o \in Outcomes : Respond(r, o)
    \/ \E b \in BOOLEAN : InitCache(b)
    \/ StoreElapse("matchDetails")

MatchSpec == ClientStart /\ [][MatchNext]_vars

\* A match and its timeline asked for in three regions, two of them on one
\* route; every request is answered.
RegionNext ==
    \/ \E r \in ReadIds, g \in DOMAIN REGION_TO_ROUTE : GetMatchIn(r, "m1", g)
    \/ \E r \in ReadIds, g \in DOMAIN REGION_TO_ROUTE : GetMatchTimeline(r, "m1", g)
    \/ \E r \in ReadIds, o \in {x \in Outcomes : x.status \in {200, 404}} : Respond(r, o)

RegionSpec == ClientStart /\ [][RegionNext]_vars

\* The match lookup with a key the upstream may refuse, and a hook.
AuthOutcomes == {o \in Outcomes : o.status \in {200, 401, 429}}

AuthNext ==
    \/ \E r \in ReadIds, m \in MatchIds : GetMatch(r, m)
    \/ \E r \in ReadIds, o \in AuthOutcomes : Respond(r, o)
    \/ \E c \in DOMAIN Callbacks : SetApiKeyRefreshCallback(c)
    \/ RefreshApiKey

AuthSpec == ClientStart /\ [][AuthNext]_vars

\* The match list of one player: no options, or a count and a queue in
\* either order.
IdsNext ==
    \/ \E r \in ReadIds, o \in {x \in Options : Len(x) # 1} :
            GetMatchIds(r, "p1", o, "euw1")
    \/ \E r \in ReadIds, o \in Outcomes : Respond(r, o)
    \/ \E b \in BOOLEAN : InitCache(b)
    \/ StoreElapse("matchIds")

IdsSpec == ClientStart /\ [][IdsNext]_vars

\* One call of getMatches with up to batchSize + 1 ids, the cache enabled
\* or disabled beforehand.
MatchLists == UNION {[1..n -> MatchIds] : n \in 0..(batchSize + 1)}

\* An item is answered with its match, with not-found, or is throttled.
BatchOutcomes == {o \in Outcomes : o.status \in {200, 404, 429}}

BatchNext ==
    \/ \E ids \in MatchLists : GetMatches(ids)
    \/ \E r \in ReadIds, o \in BatchOutcomes : BatchRespond(r, o)
    \/ \E b \in BOOLEAN : batch.pc = "idle" /\ InitCache(b)

BatchSpec == Start(0, 0, 1) /\ [][BatchNext]_vars

\* The profile of one player; the switch and the clock move between calls.
GameNames == {"p1"}

Settled == \A q \in ReadIds : reads[q].pc # "fetching"

ProfileNext ==
    \/ \E n \in GameNames : GetPlayerProfile(n, "EUW", "euw1")
    \/ \E r \in ReadIds, o \in Outcomes : ProfileRespond(r, o)
    \/ \E b \in BOOLEAN : Settled /\ InitCache(b)
    \/ Settled /\ StoreElapse("playerProfile")

ProfileSpec == ClientStart /\ [][ProfileNext]_vars

\* The reference data: a version and two item files upstream, requests
\* that succeed or fail, item lookups; no time passes.
Versions == {"v1"}
Data(kind) == IF kind = "items" THEN {"itemsA", "itemsB"} ELSE {kind}
DragonOutcomes == {o \in Outcomes : o.status \in {200, 500}}
ItemIds == {0, 1001}

DragonNext ==
    \/ InitDataDragon
    \/ \E l \in DOMAIN Kinds, o \in DragonOutcomes, v \in Versions : VersionSettles(l, o, v)
    \/ \E l \in DOMAIN Kinds, o \in DragonOutcomes : \E d \in Data(Kinds[l]) :
            DataSettles(l, o, d)
    \/ \E id \in ItemIds : GetItemById(id)

DragonSpec == ClientStart /\ [][DragonNext]_vars

\* The four collections with two champion files upstream, of which the
\* request may fail, the five lookups, and the cache switched between loads.
ReloadData(kind) ==
    IF kind = "champions" THEN {"championsA", "championsB", "failure"}
    ELSE IF kind = "items" THEN {"itemsB"} ELSE {kind}

Answered == [kind |-> "http", status |-> 200]
Refused == [kind |-> "http", status |-> 500]

Loading == \E l \in DOMAIN Kinds : loaders[l].pc \in {"version", "data"}

ResolveNext ==
    \/ InitDataDragon
    \/ \E l \in DOMAIN Kinds, v \in Versions : VersionSettles(l, Answered, v)
    \/ \E v \in Versions : VersionSettles(1, Refused, v)
    \/ \E l \in DOMAIN Kinds : \E d \in ReloadData(Kinds[l]) :
            DataSettles(l, IF Kinds[l] = "champions" /\ d = "failure"
                           THEN Refused ELSE Answered, d)
    \/ \E b \in BOOLEAN : ~Loading /\ InitCache(b)
    \/ GetChampionById(62)
    \/ GetChampionByName(Wukong.name)
    \/ GetItemById(1001)
    \/ GetSummonerSpellById(4)
    \/ GetRuneById(8005)

ResolveSpec == ClientStart /\ [][ResolveNext]_vars

\* ---- properties ----------------------------------------------------------

QueueAdmissions == {i \in 1..Len(admitted) : admitted[i].path = "queue"}

\* C1: the short-window counter never exceeds 20 and the long-window counter
\* never exceeds 100, and every admission, at once or from the queue, is
\* made where both counters, after the reset rule, are below their limits.
WindowsRespected ==
    /\ state.requestsThisSecond <= REQUESTS_PER_SECOND
    /\ state.requestsThis2Minutes <= REQUESTS_PER_2_MINUTES
    /\ \A i \in 1..Len(admitted) :
          /\ admitted[i].preSecond < REQUESTS_PER_SECOND
          /\ admitted[i].pre2Minutes < REQUESTS_PER_2_MINUTES

\* The last unit of the long window goes to a request from the queue while
\* another one keeps waiting.
LastUnitFromQueue ==
    /\ QueueAdmissions # {}
    /\ state.requestsThis2Minutes = REQUESTS_PER_2_MINUTES
    /\ state.queue # <<>>

\* C2: of more calls than a window admits, those within the limit are
\* admitted at once (a call is pushed only when a window is used up, and
\* that window ends later), a pushed call is admitted no earlier than the
\* end of the window that refused it, and every pushed call is admitted.
OverflowDelayed ==
    /\ [](\A i \in QueueAdmissions : admitted[i].notBefore <= Now)
    /\ [][\A c \in Callers :
            pc[c] = "idle" /\ pc'[c] = "queued" => notBefore'[c] > Now]_vars
    /\ \A c \in Callers : (pc[c] = "queued") ~> (pc[c] = "idle")

\* The whole burst is through, its last calls by way of the queue.
BurstThrough ==
    /\ budget = 0
    /\ \A c \in Callers : pc[c] = "idle"
    /\ QueueAdmissions # {}
    /\ since.minutes = REQUESTS_PER_SECOND + NumCallers

\* C3, as claimed: no interval of one short window's length holds more
\* admissions than the short limit (the sliding reading of the windows).
SlidingWindowRespected == Total(recent) <= REQUESTS_PER_SECOND

\* C3, amended: a window is restarted only when it is at least its duration
\* old, no more than its limit is admitted between two restarts, and an
\* interval of one short window's length holds at most twice the limit.
FixedWindowRespected ==
    /\ \A r \in restarted :
          r.age >= (IF r.window = "second" THEN SECOND_WINDOW_MS
                    ELSE TWO_MINUTES_WINDOW_MS)
    /\ since.second <= REQUESTS_PER_SECOND
    /\ since.minutes <= REQUESTS_PER_2_MINUTES
    /\ Total(recent) <= 2 * REQUESTS_PER_SECOND

\* Two full windows inside one second.
TwoWindowsInOneSecond == Total(recent) = 2 * REQUESTS_PER_SECOND

\* C4: a request leaves the queue only if no request waiting with it has a
\* higher priority, whenever the others were pushed.
PriorityFirst ==
    \A i \in QueueAdmissions :
        \A j \in 1..Len(admitted[i].rest) :
            admitted[i].rest[j].priority <= admitted[i].priority

\* A request overtakes one of lower priority that was pushed before it.
Overtaking ==
    \E i \in QueueAdmissions :
        \E j \in 1..Len(admitted[i].rest) :
            /\ admitted[i].rest[j].priority < admitted[i].priority
            /\ admitted[i].rest[j].caller \in admitted[i].before

\* C5: a request leaves the queue only if no request of its priority that
\* was pushed before it is still waiting.
FifoWithinPriority ==
    \A i \in QueueAdmissions :
        \A j \in 1..Len(admitted[i].rest) :
            admitted[i].rest[j].priority = admitted[i].priority
                => admitted[i].rest[j].caller \notin admitted[i].before

\* Pushed in the order a, b, c with the priority of b above that of a and
\* c: b is admitted first, then a, ahead of c.
FifoAcrossInsertion ==
    /\ Len(admitted) >= 2
    /\ admitted[1].path = "queue" /\ admitted[2].path = "queue"
    /\ admitted[1].priority > admitted[2].priority
    /\ admitted[2].caller \in admitted[1].before
    /\ \E j \in 1..Len(admitted[2].rest) :
          /\ admitted[2].rest[j].priority = admitted[2].priority
          /\ admitted[2].rest[j].caller \notin admitted[1].before

\* C6: every call that is pushed is admitted in the end.
EveryCallAdmitted ==
    \A c \in Callers : (pc[c] = "queued") ~> (pc[c] = "idle")

\* C7: at most one processQueue run is active, one is active exactly while
\* state.processing is set, and the queue is empty whenever none is.
SingleServicer ==
    /\ Len(sleepers) <= 1
    /\ state.processing <=> Len(sleepers) = 1
    /\ state.queue # <<>> => state.processing
    /\ ~busySpin

\* A caller pushed its request while the servicer was asleep.
PushedBehindServicer ==
    /\ state.processing
    /\ Len(state.queue) >= 2
    /\ Len(sleepers) = 1

\* C8: a withRetry execution that returns has called fn exactly once more
\* than fn failed with 429, at most maxRetries + 1 times, and calls it no
\* more; one that gives up on a 429 has called fn exactly maxRetries + 1
\* times, each ending in 429, and throws that last error.
AttemptsCounted ==
    \A c \in Callers :
        /\ call[c].result = "returned" =>
              /\ call[c].fnCalls = call[c].throttled + 1
              /\ call[c].throttled <= call[c].maxRetries
              /\ pc[c] # "infn" /\ pc[c] # "backoff"
        /\ call[c].result = "thrown" /\ call[c].lastError = 429 =>
              /\ call[c].fnCalls = call[c].maxRetries + 1
              /\ call[c].throttled = call[c].maxRetries + 1
              /\ pc[c] # "infn" /\ pc[c] # "backoff"
        /\ call[c].result = "pending" =>
              call[c].fnCalls <= call[c].maxRetries + 1

\* fn succeeded on the last attempt maxRetries allows.
ReturnedOnLastAttempt ==
    \E c \in Callers :
        /\ call[c].result = "returned"
        /\ call[c].maxRetries = MAX_RETRIES
        /\ call[c].throttled = MAX_RETRIES
        /\ call[c].fnCalls = MAX_RETRIES + 1

\* C9: an execution has been admitted by the limiter as many times as it
\* has called fn, and a call of fn begins only in a step in which the
\* limiter admits its caller.
AcquiredBeforeEachAttempt ==
    /\ [](\A c \in Callers : call[c].units = call[c].fnCalls)
    /\ [][\A c \in Callers :
            call'[c].fnCalls # call[c].fnCalls /\ call'[c].fnCalls > 0
                => c \in Resolved(admitted')]_vars

\* An execution that began on a used-up short window is at its last
\* attempt: it took its first unit by way of the queue and one more unit of
\* the long window for every retry.
UnitPerAttempt ==
    \E c \in Callers :
        /\ pc[c] = "infn"
        /\ call[c].fnCalls = MAX_RETRIES + 1
        /\ call[c].units = MAX_RETRIES + 1
        /\ state.requestsThis2Minutes = REQUESTS_PER_SECOND + MAX_RETRIES + 1

\* C10: when an attempt ends in a failure other than 429, the execution
\* throws in that very step, without a backoff; an execution that threw such
\* an error slept once per 429 only, called fn once more than that, and
\* acquired no unit it did not use.
FatalPropagates ==
    /\ [](\A c \in Callers :
            call[c].result = "thrown" /\ call[c].lastError # 429 =>
                /\ call[c].backoffs = call[c].throttled
                /\ call[c].fnCalls = call[c].throttled + 1
                /\ call[c].units = call[c].fnCalls
                /\ pc[c] = "idle")
    /\ [][\A c \in Callers :
            /\ pc[c] = "infn" /\ pc'[c] # "infn"
            /\ call'[c].throttled = call[c].throttled
            /\ call'[c].result # "returned"
            => /\ call'[c].result = "thrown"
               /\ call'[c].backoffs = call[c].backoffs
               /\ pc'[c] = "idle"]_vars

\* A 404 after MAX_RETRIES retriable failures, with an attempt to spare.
FatalAfterRetries ==
    \E c \in Callers :
        /\ call[c].result = "thrown"
        /\ call[c].lastError = 404
        /\ call[c].throttled = MAX_RETRIES - 1
        /\ call[c].maxRetries = MAX_RETRIES

\* C12: with the cache enabled, cacheGet returns the value last stored
\* under the key while that is younger than the store's TTL and was not
\* removed, returns absent once it is older than the TTL, and whatever it
\* returns is the value last stored and no older than the TTL.
FreshOrAbsent ==
    last.op = "get" /\ config.enabled =>
        LET age == Now - last.had.at
            ttl == NamespaceTtl[last.store]
        IN  /\ last.had.value # Undefined /\ age < ttl => last.value = last.had.value
            /\ age > ttl => last.value = Undefined
            /\ last.value # Undefined => last.value = last.had.value /\ age <= ttl

\* A value that was stored is asked for after its TTL and is absent.
ExpiredGet ==
    /\ last.op = "get" /\ config.enabled
    /\ last.had.value # Undefined
    /\ Now - last.had.at > NamespaceTtl[last.store]
    /\ last.value = Undefined

\* C13: a cacheSet of a new key into a store that holds storeMax keys
\* removes the key whose last use (cacheSet or cacheGet hit) is the oldest,
\* and nothing else: the store then holds the new key and, unchanged, every
\* other entry.
EvictsLeastRecentlyUsed ==
    [][last'.op = "set" /\ config.enabled /\ last'.value # Undefined
         /\ last'.key \notin Keys(caches[last'.store])
         /\ Len(caches[last'.store]) = MaxEntries
       => LET before == written[last'.store]
              after == caches'[last'.store]
          IN  /\ Keys(after) = (Keys(caches[last'.store]) \ {Head(before).key})
                               \cup {last'.key}
              /\ Len(after) = MaxEntries
              /\ \A i \in 2..Len(before) : \E j \in 1..Len(after) :
                    /\ after[j].key = before[i].key
                    /\ after[j].value = before[i].value
                    /\ after[j].start = before[i].at]_vars

\* An eviction that spared an entry stored before the evicted one, because
\* a cacheGet had used it since.
EvictedAfterGet ==
    /\ last.op = "set" /\ config.enabled /\ last.value # Undefined
    /\ last.had.value = Undefined
    /\ last.lru.value # Undefined
    /\ last.lru.key \notin Keys(caches[last.store])
    /\ \E i \in 1..Len(caches[last.store]) :
          caches[last.store][i].start < last.lru.at

\* C14: while the cache is disabled cacheGet returns absent and cacheSet
\* changes no store; what the stores hold was stored while the cache was
\* enabled, and once the cache is enabled an entry younger than its TTL is
\* returned.
DisabledIsInert ==
    /\ [][~config.enabled /\ last'.op = "get" => last'.value = Undefined]_vars
    /\ [][~config.enabled /\ last'.op = "set" => caches' = caches]_vars
    /\ [](\A s \in Stores : \A i \in 1..Len(caches[s]) :
            \E j \in 1..Len(written[s]) :
                /\ written[s][j].key = caches[s][i].key
                /\ written[s][j].value = caches[s][i].value
                /\ written[s][j].at = caches[s][i].start)
    /\ [](last.op = "get" /\ config.enabled /\ last.had.value # Undefined
            /\ Now - last.had.at < NamespaceTtl[last.store]
          => last.value = last.had.value)

\* A cacheSet that the disabled cache ignored, next to entries it keeps.
IgnoredSet ==
    /\ ~config.enabled
    /\ last.op = "set" /\ last.value # Undefined
    /\ last.key \notin Keys(caches[last.store])
    /\ caches[last.store] # <<>>

\* C11: when the upstream answers a live-game lookup with 404,
\* getCurrentGame throws nothing: it returns null and stores null in the
\* liveGame store, and a lookup of the same player and region made while
\* the stored value is younger than the TTL returns it without a request.
NotFoundIsNoGame ==
    \A r \in ReadIds : reads[r].fn = "getCurrentGame" =>
        /\ reads[r].pc # "fetching" /\ reads[r].status = 404 =>
              /\ reads[r].pc = "returned"
              /\ reads[r].value = Null
              /\ config.enabled => reads[r].stored
        /\ reads[r].fresh =>
              reads[r].pc = "returned" /\ reads[r].hit /\ reads[r].requests = 0

\* C15: with the cache enabled, a getMatch that starts after a getMatch of
\* the same match has returned, while the stored match is younger than the
\* TTL and still in the store, returns the stored match without a request;
\* the first call issues one request per attempt of riotFetch, that is one
\* request unless the upstream throttles it, and stores what it returns.
SecondCallFromCache ==
    \A r \in ReadIds : reads[r].fn = "getMatch" =>
        /\ reads[r].fresh =>
              /\ reads[r].pc = "returned" /\ reads[r].hit
              /\ reads[r].requests = 0
              /\ reads[r].value = reads[r].had
        /\ reads[r].pc = "returned" /\ ~reads[r].hit =>
              /\ reads[r].requests = reads[r].attempt + 1
              /\ reads[r].requests \in 1..(riotFetchRetries + 1)
              /\ reads[r].attempt = 0 \/ reads[r].status = 200
              /\ config.enabled /\ reads[r].stored =>
                    /\ Recorded(written["matchDetails"], reads[r].key).value
                           = reads[r].value
                    /\ \E i \in 1..Len(caches["matchDetails"]) :
                          /\ caches["matchDetails"][i].key = reads[r].key
                          /\ caches["matchDetails"][i].value = reads[r].value
                          /\ caches["matchDetails"][i].start = Now

\* A getMatch answered from the store half a TTL after the match was
\* stored.
SecondCallHit ==
    \E r \in ReadIds :
        /\ reads[r].fn = "getMatch" /\ reads[r].pc = "returned"
        /\ reads[r].hit /\ reads[r].fresh /\ reads[r].requests = 0
        /\ Now - Recorded(written["matchDetails"], reads[r].key).at > 0

\* C15 as stated: the two calls issue exactly one request, the first call
\* one and the second none.
TwoCallsOneRequest ==
    \A r \in ReadIds : reads[r].fn = "getMatch" /\ reads[r].pc = "returned" =>
        reads[r].requests = IF reads[r].hit THEN 0 ELSE 1

\* C16: a getMatchIds whose options are equivalent to those of an earlier
\* call for the same puuid and region (the same properties, in whatever
\* order) computes the key of that call: while what the earlier call
\* stored is younger than the TTL and in the store, it is answered from
\* the store without a request.
EquivalentOptionsOneKey ==
    \A r \in ReadIds : reads[r].fn = "getMatchIds" /\ reads[r].known =>
        /\ reads[r].pc = "returned" /\ reads[r].hit
        /\ reads[r].requests = 0

\* C17: getMatches never throws; it returns the matches of exactly those
\* ids of its list whose fetch succeeded, in the order of the list, and it
\* has then tried every id: an item that failed has neither ended the
\* call nor changed what any other item of its batch or of a later batch
\* contributes.
OnlySuccessesInOrder ==
    /\ batch.pc \in {"idle", "awaiting", "returned"}
    /\ batch.pc = "returned" =>
          LET tagged == [p \in 1..Len(batch.matchIds) |->
                            [id |-> batch.matchIds[p], fetched |-> batch.fetched[p]]]
              ok == SelectSeq(tagged, LAMBDA t : t.fetched = "ok")
          IN  /\ \A p \in 1..Len(batch.matchIds) : batch.fetched[p] # "pending"
              /\ batch.matches =
                    [j \in 1..Len(ok) |-> "matches/europe/" \o ok[j].id]
    /\ batch.pc = "awaiting" =>
          Len(batch.matches) <= batch.i /\ batch.i < Len(batch.matchIds)

\* A call that returned matches of its second batch after an item of its
\* first batch had failed.
LaterBatchAfterFailure ==
    /\ batch.pc = "returned"
    /\ \E p, q \in 1..Len(batch.matchIds) :
          /\ p <= batchSize /\ q > batchSize
          /\ batch.fetched[p] = "failed" /\ batch.fetched[q] = "ok"
          /\ batch.matches # <<>>

\* C18: getPlayerProfile starts the summoner and the ranked lookup only
\* after the account lookup has returned, and starts both in the same
\* step, so that both are in flight together; when the account lookup
\* throws, neither is started and getPlayerProfile throws that error; when
\* one of the two throws, getPlayerProfile throws that error; it returns
\* once both have returned.
DependentsAfterAccount ==
    LET summoner == reads[1].fn = "getSummonerByPuuid"
        ranked == reads[2].fn = "getRankedEntries"
    IN  /\ summoner <=> ranked
        /\ summoner =>
              /\ profile.account # Undefined
              /\ profile.pc \in {"dependents", "returned", "thrown"}
              /\ reads[1].key = <<"summoner", profile.account, profile.region>>
              /\ reads[2].key = <<"ranked", profile.account, profile.region>>
              /\ reads[1].pc # "idle" /\ reads[2].pc # "idle"
        /\ profile.pc = "account" =>
              reads[1].fn = "getAccountByRiotId" /\ reads[1].pc = "fetching"
              /\ reads[2] = NoRead
        /\ profile.pc = "dependents" =>
              /\ summoner
              /\ reads[1].pc = "fetching" \/ reads[2].pc = "fetching"
              /\ reads[1].pc # "thrown" /\ reads[2].pc # "thrown"
        /\ profile.pc = "thrown" /\ profile.account = Undefined =>
              /\ reads[1].fn = "getAccountByRiotId" /\ reads[1].pc = "thrown"
              /\ profile.error = reads[1].error
              /\ reads[2] = NoRead
        /\ summoner /\ (reads[1].pc = "thrown" \/ reads[2].pc = "thrown") =>
              /\ profile.pc = "thrown"
              /\ profile.error \in {reads[r].error : r \in {q \in {1, 2} : reads[q].pc = "thrown"}}
        /\ profile.pc = "returned" =>
              summoner /\ reads[1].pc = "returned" /\ reads[2].pc = "returned"

\* Both lookups are in flight at once, each with a request of its own.
BothInFlight ==
    /\ profile.pc = "dependents"
    /\ reads[1].fn = "getSummonerByPuuid" /\ reads[1].pc = "fetching"
    /\ reads[2].fn = "getRankedEntries" /\ reads[2].pc = "fetching"

\* C19: before the TTL of the cached version has passed, no more than one
\* request for the version is made, whatever calls getLatestVersion,
\* the four load functions of initDataDragon included.
VersionFetchedOnce == versionRequests <= 1

\* C20: getItemById(0) returns null in every state, whatever the item
\* index holds.
ZeroIsAbsent ==
    resolved.fn = "getItemById" /\ resolved.id = 0 => resolved.value = Null

\* getItemById(0) returned null from an index that holds an item under 0.
ZeroInIndex ==
    /\ resolved.fn = "getItemById"
    /\ resolved.id = 0 /\ resolved.value = Null
    /\ \E e \in itemsById : e.id = 0

\* One window over a step that made n admissions: the counter grows by n, or
\* the window, at least duration old, restarts at Now and counts n.
WindowStep(count, countAfter, start, startAfter, duration, n) ==
    LET restarts == startAfter = Now /\ start # Now
    IN  /\ restarts => Now - start >= duration
        /\ countAfter = (IF restarts THEN 0 ELSE count) + n
        /\ countAfter < count + n => restarts

\* C28: every admission, at once or from the queue, adds exactly one to the
\* short-window counter and to the long-window counter in the same step; a
\* counter drops only by the reset of its own window, which happens only
\* when that window is at least its duration old and sets its start to now;
\* each window restarts by its own age alone.
WindowAccounting ==
    [][LET n == Len(admitted')
           secondRestarts == state'.lastSecondReset = Now /\ state.lastSecondReset # Now
           minutesRestart == state'.last2MinutesReset = Now /\ state.last2MinutesReset # Now
       IN  /\ WindowStep(state.requestsThisSecond, state'.requestsThisSecond,
                         state.lastSecondReset, state'.lastSecondReset,
                         SECOND_WINDOW_MS, n)
           /\ WindowStep(state.requestsThis2Minutes, state'.requestsThis2Minutes,
                         state.last2MinutesReset, state'.last2MinutesReset,
                         TWO_MINUTES_WINDOW_MS, n)
           /\ \A i \in 1..n :
                 /\ admitted'[i].preSecond =
                       (IF secondRestarts THEN 0 ELSE state.requestsThisSecond) + i - 1
                 /\ admitted'[i].pre2Minutes =
                       (IF minutesRestart THEN 0 ELSE state.requestsThis2Minutes) + i - 1]_vars

\* A step restarted the short window alone and admitted from the queue: the
\* long window keeps the admissions of the earlier short windows.
ShortWindowAlone ==
    /\ \E r \in restarted : r.window = "second"
    /\ \A r \in restarted : r.window # "minutes"
    /\ QueueAdmissions # {}
    /\ state.requestsThis2Minutes > state.requestsThisSecond

\* C29: the backoff after the retriable failure of the attempt with index i
\* lasts RETRY_DELAY_MS * 2^i ms (1000, 2000, 4000 for i = 0, 1, 2): the
\* waits of one execution grow strictly, each twice the one before, and the
\* loop goes on only when the wait is over.
BackoffDoubles ==
    /\ [](\A c \in Callers :
            LET w == call[c].waits
            IN  /\ \A i \in 1..Len(w) : w[i] = RETRY_DELAY_MS * 2^(i - 1)
                /\ \A i \in 2..Len(w) : w[i] = 2 * w[i - 1] /\ w[i] > w[i - 1]
                /\ Len(w) >= 3 => SubSeq(w, 1, 3) = <<1000, 2000, 4000>>)
    /\ [][\A c \in Callers :
            /\ pc[c] # "backoff" /\ pc'[c] = "backoff" =>
                  /\ Len(call'[c].waits) = call[c].attempt + 1
                  /\ call'[c].wake = Now + call'[c].waits[call[c].attempt + 1]
            /\ pc[c] = "backoff" /\ pc'[c] # "backoff" => call[c].wake <= Now]_vars

\* The attempt after three backoffs is in flight.
ThreeBackoffs ==
    \E c \in Callers :
        /\ pc[c] = "infn"
        /\ call[c].attempt = 3
        /\ call[c].waits = <<1000, 2000, 4000>>

\* C30: a backoff is slept only before a further attempt: when the attempt
\* with index maxRetries fails with a retriable error the execution throws
\* without sleeping, so an execution that gave up slept maxRetries times.
BackoffOnlyBeforeAttempt ==
    \A c \in Callers :
        /\ pc[c] = "backoff" => call[c].attempt < call[c].maxRetries
        /\ call[c].result = "thrown" /\ call[c].lastError = 429 =>
              call[c].backoffs = call[c].maxRetries

\* C23: getRateLimitStatus is read-only: the call leaves the two counters,
\* the two window starts, the queue and the processing flag as they were.
StatusReadOnly ==
    [][snapshot' # NoSnapshot => state' = state]_vars

\* C26: cacheDelete(store, key) removes that key and leaves every other
\* entry of every store as it was, cacheClear(store) empties that store
\* alone, cacheClear() empties all stores, and cacheSet changes no store
\* but its own, also when another store holds an equal key.
InvalidationTargeted ==
    [][LET others == Stores \ {last'.store}
       IN  /\ last'.op = "delete" =>
                 /\ caches'[last'.store] =
                       SelectSeq(caches[last'.store], LAMBDA x : x.key # last'.key)
                 /\ \A n \in others : caches'[n] = caches[n]
           /\ last'.op = "clear" /\ last'.store # "" =>
                 /\ caches'[last'.store] = <<>>
                 /\ \A n \in others : caches'[n] = caches[n]
           /\ last'.op = "clear" /\ last'.store = "" =>
                 \A n \in Stores : caches'[n] = <<>>
           /\ last'.op = "set" =>
                 \A n \in others : caches'[n] = caches[n]]_vars

\* A key was deleted from one store; the other store holds the same key,
\* and the first store another entry.
DeletedInOneStore ==
    /\ last.op = "delete"
    /\ last.store = "liveGame"
    /\ IndexOf(caches["liveGame"], last.key) = 0
    /\ IndexOf(caches["matchIds"], last.key) # 0
    /\ Len(caches["liveGame"]) = MaxEntries - 1

\* C21: the five lookups are pure reads: a lookup makes no request, starts
\* no load, and leaves the indexes, the version and the cache as they were;
\* called before anything was loaded it returns null.
LookupsArePure ==
    [][resolved' # NoResolved =>
          /\ UNCHANGED <<caches, currentVersion, indexVars, loaders, versionRequests>>
          /\ currentVersion = Null /\ versionRequests = 0 => resolved'.value = Null]_vars

\* A champion was looked up by name before initDataDragon was ever called.
LookupBeforeLoad ==
    /\ resolved.fn = "getChampionByName"
    /\ resolved.value = Null
    /\ currentVersion = Null
    /\ versionRequests = 0
    /\ \A l \in DOMAIN Kinds : loaders[l].pc = "idle"

\* The complete indexes of the files the upstream may hold.
ChampionIndexes ==
    {[byId |-> {}, byName |-> {}],
     [byId |-> {[key |-> 1, value |-> "Annie"]},
      byName |-> {[key |-> <<"a", "n", "n", "i", "e">>, value |-> "Annie"]}],
     [byId |-> {[key |-> 1, value |-> "Annie"], [key |-> 62, value |-> "Wukong"]},
      byName |-> {[key |-> <<"a", "n", "n", "i", "e">>, value |-> "Annie"],
                  [key |-> <<"m", "o", "n", "k", "e", "y", "k", "i", "n", "g">>,
                   value |-> "Wukong"],
                  [key |-> <<"w", "u", "k", "o", "n", "g">>, value |-> "Wukong"]}]}

ItemIndexes ==
    {{}, {[id |-> 0, item |-> "Empty"], [id |-> 1001, item |-> "Boots"],
          [id |-> 3006, item |-> "Greaves"]}}

RuneIndexes ==
    {{}, {[key |-> 8000, value |-> [rune |-> "Precision", tree |-> "Precision"]],
          [key |-> 8005, value |-> [rune |-> "Press the Attack", tree |-> "Precision"]],
          [key |-> 9111, value |-> [rune |-> "Triumph", tree |-> "Precision"]]}}

\* C22: whenever a lookup can run, during a reload too, each index is the
\* complete index of one file, the old one or the new one, the two champion
\* indexes are those of the same file, and an index that was filled is
\* never seen empty again.
IndexSwappedWhole ==
    /\ []([byId |-> championsById, byName |-> championsByName] \in ChampionIndexes)
    /\ [](itemsById \in ItemIndexes /\ runesById \in RuneIndexes)
    /\ [][/\ championsById # {} => championsById' # {}
          /\ championsByName # {} => championsByName' # {}
          /\ itemsById # {} => itemsById' # {}
          /\ runesById # {} => runesById' # {}]_vars

\* A champion was found by one of its names in the old index while the
\* second load's request for champion.json is in flight.
LookupDuringReload ==
    /\ resolved.fn = "getChampionByName"
    /\ resolved.value = "Wukong"
    /\ loaders[1].pc = "data"
    /\ budget = 0

\* C27: when no load is in progress, the load functions of the last
\* initDataDragon have rebuilt all four indexes or none of them, also when
\* one of its requests failed.
ReloadedTogether ==
    ~Loading =>
        \/ \A l \in DOMAIN Kinds : loaders[l].pc = "done"
        \/ \A l \in DOMAIN Kinds : loaders[l].pc # "done"

InvalidKey ==
    <<"I", "n", "v", "a", "l", "i", "d", " ", "R", "i", "o", "t", " ",
      "A", "P", "I", " ", "k", "e", "y">>

CancelledIsReleased ==
    [][\A c \in cancelled' :
          /\ \A i \in 1..Len(state'.queue) : state'.queue[i].caller # c
          /\ c \notin Resolved(admitted')
          /\ call'[c].units = call[c].units
          /\ call'[c].fnCalls = call[c].fnCalls]_vars

\* ---- processQueue's loop on a running clock -------------------------------

\* Date.now() is read anew by every function of rate-limiter.ts; between
\* two readings of one synchronous run the clock moves on by up to
\* MaxSkewMs milliseconds.
MaxSkewMs == 1
Skews == 0..MaxSkewMs

\* The state as a reading of the clock d ms later sees it.
later(st, d) ==
    [st EXCEPT !.lastSecondReset = Age(@, d, SECOND_WINDOW_MS),
               !.last2MinutesReset = Age(@, d, TWO_MINUTES_WINDOW_MS)]

\* Line 94, const waitTime = getWaitTime(): resetCountersIfNeeded() reads
\* the clock, the return statement reads it again d ms later.
loopWaitTime(st, d) ==
    LET s1 == later(resetCountersIfNeeded(st), d)
    IN  [st |-> s1, waitTime |-> getWaitTime(s1)]

\* Lines 101-110 of one iteration, slept telling whether the iteration
\* went through line 98: canMakeRequest(), and the admission when it
\* returns true.  The while test and line 112 follow.
LoopAdmission(st, slept) ==
    LET s1 == resetCountersIfNeeded(st)
        a == admitNext(s1)
    IN  IF canMakeRequest(s1)
        THEN /\ state' = [a.st EXCEPT !.processing = Len(a.st.queue) > 0]
             /\ admitted' = <<a.entry>>
             /\ busySpin' = FALSE
        ELSE /\ state' = s1
             /\ admitted' = <<>>
             /\ busySpin' = ~slept

\* What the loop leaves alone.
LoopFrame ==
    UNCHANGED <<pc, call, budget, notBefore, arrival, restarted, since,
                recent, snapshot, hostVars, cacheVars, restVars>>

\* An iteration from the while test to its await, or to its end when it
\* does not sleep.
IterationBegins(d1, d2) ==
    LET top == loopWaitTime(state, d1)
    IN  /\ state.processing
        /\ Len(state.queue) > 0
        /\ sleepers = <<>>
        /\ IF top.waitTime > 0
           THEN /\ state' = top.st
                /\ sleepers' = <<Now + top.waitTime>>
                /\ admitted' = <<>>
                /\ busySpin' = FALSE
           ELSE /\ LoopAdmission(later(top.st, d2), FALSE)
                /\ UNCHANGED sleepers
        /\ LoopFrame

\* The timer of line 98 fires d ms after it is due and the iteration ends.
IterationResumes(d) ==
    /\ sleepers # <<>>
    /\ LoopAdmission(later(state, (sleepers[1] - Now) + d), TRUE)
    /\ sleepers' = <<>>
    /\ LoopFrame

\* The servicer in the middle of its work: two requests queued, the
\* windows partly or wholly used and about to end or not.
SkewInit ==
    \E second \in {0, REQUESTS_PER_SECOND - 1, REQUESTS_PER_SECOND},
       minutes \in {REQUESTS_PER_SECOND, REQUESTS_PER_2_MINUTES - 1,
                    REQUESTS_PER_2_MINUTES},
       secondAge \in {0, TickMs, SECOND_WINDOW_MS - 1},
       minutesAge \in {SECOND_WINDOW_MS - 1, TWO_MINUTES_WINDOW_MS - 1},
       priority \in Priorities :
        /\ state = [requestsThisSecond |-> second,
                    requestsThis2Minutes |-> minutes,
                    lastSecondReset |-> Now - secondAge,
                    last2MinutesReset |-> Now - minutesAge,
                    queue |-> <<[caller |-> 1, priority |-> 0],
                                [caller |-> 2, priority |-> priority]>>,
                    processing |-> TRUE]
        /\ sleepers = <<>>
        /\ busySpin = FALSE
        /\ pc = [c \in Callers |-> IF c <= 2 THEN "queued" ELSE "idle"]
        /\ call = [c \in Callers |-> NoCall]
        /\ budget = 0
        /\ admitted = <<>>
        /\ notBefore = [c \in Callers |-> Now]
        /\ arrival = <<1, 2>>
        /\ restarted = {}
        /\ since = [second |-> second, minutes |-> minutes]
        /\ recent = AddRecent({}, minutes)
        /\ snapshot = NoSnapshot
        /\ CacheInit
        /\ ClientInit
        /\ DragonInit
        /\ AuthInit
        /\ cancelled = {}

SkewNext ==
    \/ \E d1, d2 \in Skews : IterationBegins(d1, d2)
    \/ \E d \in Skews : IterationResumes(d)

SkewSpec == SkewInit /\ [][SkewNext]_vars

Entries(q, c) == Cardinality({i \in 1..Len(q) : q[i].caller = c})

\* C32: a caller has one entry in the queue while it waits and none
\* otherwise; a call that is not admitted at once is pushed once, in the
\* step of the call; a request admitted from the queue was waiting and is
\* out of the queue in the step that admits it; no caller is admitted twice
\* in one step; and each admission takes the next unit of each window.
QueueHoldsTheWaiting ==
    /\ [](\A c \in Callers :
            Entries(state.queue, c) = (IF pc[c] = "queued" THEN 1 ELSE 0))
    /\ [](Len(state.queue) = Cardinality({c \in Callers : pc[c] = "queued"}))
    /\ [][/\ \A c \in Callers :
                pc[c] = "idle" /\ Entries(state'.queue, c) = 1
                    => c \notin Resolved(admitted')
          /\ \A i \in 1..Len(admitted') :
                LET a == admitted'[i]
                IN  /\ \A j \in 1..Len(admitted') : admitted'[j].caller = a.caller => j = i
                    /\ a.caller \in Callers => Entries(state'.queue, a.caller) = 0
                    /\ a.path = "queue" => Entries(state.queue, a.caller) = 1
                    /\ a.path = "immediate" /\ a.caller \in Callers
                          => Entries(state.queue, a.caller) = 0
                    /\ i < Len(admitted') =>
                          /\ admitted'[i + 1].preSecond = a.preSecond + 1
                          /\ admitted'[i + 1].pre2Minutes = a.pre2Minutes + 1
                    /\ i = Len(admitted') =>
                          /\ state'.requestsThisSecond = a.preSecond + 1
                          /\ state'.requestsThis2Minutes = a.pre2Minutes + 1]_vars

\* The servicer admitted every waiting request in one step and ended.
QueueDrained ==
    /\ Cardinality(QueueAdmissions) >= 2
    /\ state.queue = <<>>
    /\ ~state.processing
    /\ \A c \in Callers : pc[c] # "queued"

\* C33: a call is admitted at once only when no request of its priority or
\* of a higher one is waiting in the queue.
NoOvertakingAtOnce ==
    \A i \in 1..Len(admitted) :
        admitted[i].path = "immediate" =>
            \A j \in 1..Len(admitted[i].rest) :
                admitted[i].rest[j].priority < admitted[i].priority

\* The store holds an entry under the key.
Holds(store, key) == \E i \in 1..Len(caches[store]) : caches[store][i].key = key

\* C34: a read that ends with an error has stored nothing, and the step in
\* which it fails leaves every store as it was; what a read stores is the
\* body of a successful answer, or null for a live-game lookup answered
\* with 404, so null is held by no store but liveGame; and a call made
\* right after the failure, for a key no store holds, makes a request.
FailuresAreNotCached ==
    /\ [](\A r \in ReadIds :
            /\ reads[r].pc = "thrown" =>
                  /\ ~reads[r].stored
                  /\ reads[r].value = Undefined
                  /\ ~ResponseOk([kind |-> "http", status |-> reads[r].status])
            /\ reads[r].stored =>
                  \/ reads[r].status = 200 /\ reads[r].value = json(reads[r].url)
                  \/ /\ reads[r].status = 404 /\ reads[r].value = Null
                     /\ reads[r].fn = "getCurrentGame")
    /\ [](\A s \in Stores : \A i \in 1..Len(caches[s]) :
            caches[s][i].value = Null => s = "liveGame")
    /\ [][\A r \in ReadIds :
            /\ reads[r].pc = "fetching" /\ reads'[r].pc = "thrown"
                  => caches' = caches /\ written' = written
            /\ \A q \in ReadIds :
                  /\ reads[q].pc = "thrown"
                  /\ reads[r].pc # "fetching"
                  /\ reads'[r].pc # "idle"
                  /\ reads'[r].store = reads[q].store
                  /\ reads'[r].key = reads[q].key
                  /\ ~Holds(reads[q].store, reads[q].key)
                  => /\ reads'[r].pc = "fetching"
                     /\ reads'[r].requests = 1
                     /\ ~reads'[r].hit]_vars

\* A live-game lookup has failed on a 404, the cache enabled, the store
\* empty and every call made.
FailedAndAbsent ==
    /\ config.enabled
    /\ caches["liveGame"] = <<>>
    /\ \E r \in ReadIds :
          /\ reads[r].pc = "thrown"
          /\ reads[r].fn = "getCurrentGame"
          /\ reads[r].status = 404
    /\ budget = 0

\* ---- the read functions in front of the limiter ---------------------------

NotInitialized ==
    <<"R", "i", "o", "t", " ", "A", "P", "I", " ", "c", "l", "i", "e", "n", "t",
      " ", "n", "o", "t", " ", "i", "n", "i", "t", "i", "a", "l", "i", "z", "e", "d">>

\* Variant: the key is handed out as it is.
getApiKeyUnchecked(key) == [thrown |-> FALSE, value |-> key, message |-> <<>>]

\* getApiKey(): !riotApiKey holds of null and of the empty string.
getApiKey(key) ==
    IF key \in {Null, ""}
    THEN [thrown |-> TRUE, value |-> Undefined, message |-> NotInitialized]
    ELSE [thrown |-> FALSE, value |-> key, message |-> <<>>]

\* initRiotClient(apiKey)
InitRiotClient(apiKey) ==
    /\ riotApiKey # apiKey
    /\ riotApiKey' = apiKey
    /\ reads' = Kept(reads, 0)
    /\ Quiet
    /\ UNCHANGED <<refreshCallback, refreshed, cancelled, pc, call, budget,
                   cacheVars, batch, profile, dragonVars>>

\* The locals of the withRetry execution riotFetch starts.
riotFetchCall == [NoCall EXCEPT !.maxRetries = riotFetchRetries, !.result = "pending"]

\* Variant: the function acquires its unit before it looks into the cache.
ReadAcquiringFirst(r, c) ==
    LET w == begin(config, World, r, c, "none")
        rd == w.reads[r]
        key == getApiKey(riotApiKey)
    IN  /\ ~busySpin
        /\ pc[r] = "idle"
        /\ reads[r].pc # "fetching"
        /\ \A q \in ReadIds : q < r => reads[q].pc = "fetching"
        /\ budget > 0
        /\ budget' = budget - 1
        /\ IF key.thrown
           THEN /\ Becomes([w EXCEPT !.reads[r] = [rd EXCEPT
                       !.pc = "thrown", !.error = key.message, !.requests = 0]], r)
                /\ Quiet
                /\ UNCHANGED <<pc, call>>
           ELSE /\ Becomes(w, r)
                /\ Enter(r, 0, riotFetchCall)
        /\ UNCHANGED <<config, batch, profile, dragonVars, hostVars>>

\* A read function is called by the tool layer, as execution r and as
\* caller r of the limiter: it returns what the cache holds (lines 100-101)
\* or calls riotFetch, which reads the key (line 50) and calls withRetry
\* (line 52), whose first iteration calls waitForRateLimit.
Read(r, c) ==
    LET w == begin(config, World, r, c, "none")
        rd == w.reads[r]
        key == getApiKey(riotApiKey)
    IN  /\ ~busySpin
        /\ pc[r] = "idle"
        /\ reads[r].pc # "fetching"
        /\ \A q \in ReadIds : q < r => reads[q].pc = "fetching"
        /\ budget > 0
        /\ budget' = budget - 1
        /\ IF rd.hit
           THEN /\ Becomes(w, r)
                /\ Quiet
                /\ UNCHANGED <<pc, call>>
           ELSE IF key.thrown
           THEN /\ Becomes([w EXCEPT !.reads[r] = [rd EXCEPT
                       !.pc = "thrown", !.error = key.message, !.requests = 0]], r)
                /\ Quiet
                /\ UNCHANGED <<pc, call>>
           ELSE /\ Becomes(w, r)
                /\ Enter(r, 0, riotFetchCall)
        /\ UNCHANGED <<config, batch, profile, dragonVars, hostVars>>

\* The upstream answers the request of r: withRetry's attempt ends and the
\* read function goes on from its await.
ReadSettles(r, o) ==
    /\ reads[r].pc = "fetching"
    /\ AttemptEnds(r, o)
    /\ Becomes(settle(config, World, r, o), r)
    /\ UNCHANGED <<budget, config, batch, profile, dragonVars, hostVars>>

\* Answers that end the execution: the match or the account, or a status
\* that is not retried.
FinalOutcomes == {o \in Outcomes : o.status \in {200, 404, 500}}

\* The reads of the tool layer within one short window of the limiter, of
\* which one unit or every unit is left; the client starts without a key.
QuotaInit ==
    /\ \E used \in {0, REQUESTS_PER_SECOND - 1} :
            StartUnkeyed(used, used, MaxCalls + 1)
    /\ riotApiKey \in {Null, "key1"}
    /\ refreshCallback = Null
    /\ refreshed = Undefined

QuotaNext ==
    \/ \E r \in ReadIds, m \in MatchIds : Read(r, getMatch(m, defaultRegion))
    \/ \E r \in ReadIds : Read(r, getAccountByRiotId("g1", "t1", "euw1"))
    \/ \E r \in ReadIds, o \in FinalOutcomes : ReadSettles(r, o)
    \/ \E k \in {"", "key1"} : InitRiotClient(k)

QuotaSpec == QuotaInit /\ [][QuotaNext]_vars

\* Execution r begins in the step.
Begins(r) == reads[r].pc # "fetching" /\ reads'[r].pc # "idle"

\* C35: a read that finds its key in the cache returns in the step of the
\* call and leaves the limiter as it was: the counters, the window starts,
\* the queue, the servicer and every withRetry execution; a read that
\* misses, the key provisioned, takes a unit of each window or a place in
\* the queue.
CacheHitIsFree ==
    [][\A r \in ReadIds : Begins(r) =>
          /\ reads'[r].hit =>
                /\ reads'[r].pc = "returned"
                /\ reads'[r].requests = 0
                /\ state' = state
                /\ sleepers' = sleepers
                /\ admitted' = <<>>
                /\ pc' = pc
                /\ call' = call
          /\ reads'[r].pc = "fetching" =>
                \/ /\ state'.requestsThisSecond = state.requestsThisSecond + 1
                   /\ state'.requestsThis2Minutes = state.requestsThis2Minutes + 1
                   /\ call'[r].fnCalls = 1
                \/ /\ Len(state'.queue) = Len(state.queue) + 1
                   /\ call'[r].fnCalls = 0]_vars

\* A read was answered from the cache while both windows were used up and
\* another read was waiting in the queue.
HitWhileFull ==
    /\ \E r \in ReadIds : reads[r].pc = "returned" /\ reads[r].hit
    /\ state.requestsThisSecond = REQUESTS_PER_SECOND
    /\ Len(state.queue) = 1

\* C36: while the module holds no key (null, or the empty string) a read
\* that misses the cache throws the not-initialised error in the step of
\* the call: no request is made, the limiter is left as it was (counters,
\* window starts, queue, servicer, executions) and no store is written.
NoKeyNoQuota ==
    [][\A r \in ReadIds :
          Begins(r) /\ riotApiKey \in {"null", ""} /\ ~reads'[r].hit =>
              /\ reads'[r].pc = "thrown"
              /\ reads'[r].error = NotInitialized
              /\ reads'[r].requests = 0
              /\ ~reads'[r].stored
              /\ state' = state
              /\ sleepers' = sleepers
              /\ admitted' = <<>>
              /\ pc' = pc
              /\ call' = call
              /\ ~\E i \in 1..Len(caches'[reads'[r].store]) :
                    caches'[reads'[r].store][i].key = reads'[r].key
              /\ \A s \in Stores : Keys(caches'[s]) \subseteq Keys(caches[s])]_vars

\* A read has failed for want of a key after initRiotClient was called with
\* an empty one, while an earlier read, made with a key, is in the cache
\* and has used a unit.
FailedWithoutKey ==
    /\ riotApiKey = ""
    /\ \E r \in ReadIds :
          /\ reads[r].pc = "thrown"
          /\ reads[r].error = NotInitialized
    /\ \E s \in Stores : caches[s] # <<>>
    /\ state.requestsThis2Minutes \in {1, REQUESTS_PER_SECOND}

InFlight == {r \in ReadIds : reads[r].pc = "fetching"}

\* C37: while getMatches waits, the fetches in flight are those of the
\* items of its current batch, matchIds[i + 1 .. i + batchSize], so never
\* more than batchSize; the loop moves on, by whole batches, only in the
\* step that settles the last fetch of the batch, and the fetches then in
\* flight are those of the batch it has moved to.
BatchesInTurn ==
    /\ [](Cardinality(InFlight) <= batchSize)
    /\ [](batch.pc = "awaiting" =>
            /\ InFlight # {}
            /\ \A r \in InFlight :
                  /\ r <= batchSize
                  /\ batch.i + r <= Len(batch.matchIds)
                  /\ reads[r].owner = "getMatches"
                  /\ reads[r].key = <<"match", batch.matchIds[batch.i + r]>>)
    /\ [](batch.pc # "awaiting" => InFlight = {})
    /\ [][batch.pc = "awaiting" /\ batch'.i # batch.i =>
            /\ Cardinality(InFlight) = 1
            /\ batch'.i >= batch.i + batchSize
            /\ (batch'.i - batch.i) % batchSize = 0]_vars

\* The first batch has settled, one of its fetches having failed, and the
\* fetch of the second batch is in flight.
SecondBatchInFlight ==
    /\ batch.pc = "awaiting"
    /\ batch.i = batchSize
    /\ Len(batch.matchIds) = batchSize + 1
    /\ Cardinality(InFlight) = 1
    /\ \E p \in 1..batchSize : batch.fetched[p] = "failed"
    /\ \E p \in 1..batchSize : batch.fetched[p] = "ok"

\* The index, or pair of indexes, that load function l builds.
IndexOfKind(l, byId, byName, items, spells, runes) ==
    IF l = 1 THEN <<byId, byName>>
    ELSE IF l = 2 THEN <<items>>
    ELSE IF l = 3 THEN <<spells>> ELSE <<runes>>

\* C38: the step in which a load function fails, on the version or on its
\* file, leaves all five indexes, the version and the store as they were;
\* an index changes only in a step in which its own load function ends
\* well, and it is then the whole index of a file.
FailedLoadKeepsIndex ==
    [][\A l \in DOMAIN Kinds :
          /\ loaders'[l].pc = "failed" /\ loaders[l].pc # "failed" =>
                /\ loaders[l].pc \in {"version", "data"}
                /\ championsById' = championsById
                /\ championsByName' = championsByName
                /\ itemsById' = itemsById
                /\ spellsById' = spellsById
                /\ runesById' = runesById
                /\ currentVersion' = currentVersion
                /\ caches' = caches
          /\ IndexOfKind(l, championsById', championsByName', itemsById',
                         spellsById', runesById')
                # IndexOfKind(l, championsById, championsByName, itemsById,
                              spellsById, runesById) =>
                /\ loaders'[l].pc = "done"
                /\ \A i \in 1..Len(IndexOfKind(l, championsById', championsByName',
                                               itemsById', spellsById', runesById')) :
                      IndexOfKind(l, championsById', championsByName', itemsById',
                                  spellsById', runesById')[i] # {}]_vars

\* The second load of the champions has failed, and a champion is then
\* found in the index the first load built.
FoundAfterFailedReload ==
    /\ loaders[1].pc = "failed"
    /\ loaders[1].version = "v1"
    /\ budget = 0
    /\ resolved.fn = "getChampionById"
    /\ resolved.value \notin {Null, Undefined}

\* C39: a read that is answered from the cache returns what the upstream
\* holds for its own parameters, the region included: a value stored by a
\* call with other parameters is never returned.
CachedPerParameters ==
    \A r \in ReadIds :
        reads[r].pc = "returned" /\ reads[r].hit =>
            reads[r].value = json(reads[r].url)

\* getCacheStats(): for each store the number of entries it holds, the
\* expired ones that no read has removed included, and its max option.
getCacheStats(cs) ==
    [name \in Stores |-> [size |-> Len(cs[name]), maxSize |-> storeMax(name)]]

\* C40: no store ever holds more entries than its capacity, and
\* getCacheStats reports a size of at most maxSize for each store; the
\* eviction is part of the write: a cacheSet of a new key into a full
\* store leaves exactly the capacity, into a store with room one entry
\* more, and no other call is left to shrink a store to its capacity.
StoresWithinCapacity ==
    /\ [](\A s \in Stores :
            /\ Len(caches[s]) <= MaxEntries
            /\ getCacheStats(caches)[s].size <= getCacheStats(caches)[s].maxSize
            /\ getCacheStats(caches)[s].maxSize = MaxEntries)
    /\ [][last'.op = "set" /\ config.enabled /\ last'.value # Undefined
            /\ last'.key \notin Keys(caches[last'.store])
          => Len(caches'[last'.store]) =
                IF Len(caches[last'.store]) < MaxEntries
                THEN Len(caches[last'.store]) + 1
                ELSE MaxEntries]_vars

\* A cacheSet of a new key has just met a full store, and the statistics
\* show the store at its maxSize.
WrittenAtCapacity ==
    /\ last.op = "set" /\ config.enabled /\ last.value # Undefined
    /\ last.had.value = Undefined
    /\ last.lru.value # Undefined
    /\ last.lru.key \notin Keys(caches[last.store])
    /\ last.key \in Keys(caches[last.store])
    /\ getCacheStats(caches)[last.store].size = MaxEntries

====
